---------------------------- MODULE Spec2Model ----------------------------
(***************************************************************************)
(* A model of otelcompare's trace package: the identity resolver, the     *)
(* duration calculator, the single-set reporter (GenerateMarkdown), the    *)
(* pairwise comparator (CompareTraces) and the N-way comparator            *)
(* (CompareMultipleTraces), and of the info and compare commands that      *)
(* decode the input files, render a report and print or post it.           *)
(*                                                                         *)
(* Data.  A Span is a record                                               *)
(*   [SpanID, ParentSpanID, Name, StartTime, EndTime, Attributes, Events]  *)
(* a Trace is [TraceID, Spans, Attributes, ResourceAttrs] and a TraceSet   *)
(* is [Name, Traces].  A Go map[string]string is a function whose domain   *)
(* is its key set.  A time.Time is an integer number of ticks, a           *)
(* time.Duration a (possibly negative) number of ticks; one tick is        *)
(* TickNanos nanoseconds.  A Markdown report is kept as the sequence of    *)
(* its rows, each row the tuple of its cells, in the order the code        *)
(* writes them.                                                            *)
(***************************************************************************)
EXTENDS Integers, Sequences, FiniteSets, TLC

VARIABLES
  traceSets,   \* the caller's decoded collections, one TraceSet per input file
  decoded,     \* the collections as the decoder returned them (history)
  attribute,   \* the comparison key the caller selected
  calls,       \* the calls made so far: [op, in, out] (history)
  run          \* the run of a command: its command line, environment,
               \* position, output and posted comments; NoRun outside one

vars == <<traceSets, decoded, attribute, calls, run>>

\* The library called directly, without a command.
NoRun == [pc |-> "none"]

(***************************************************************************)
(* Bounds of the model.                                                    *)
(***************************************************************************)
MaxSpans == 2     \* spans per trace
MaxTraces == 2    \* traces per collection
MaxSets == 3      \* collections in an N-way comparison
MaxTime == 2      \* largest timestamp, in ticks
MaxCalls == 2     \* calls per behaviour

(***************************************************************************)
(* Strings.  Go compares strings byte by byte; the model's strings are    *)
(* over letters, digits, space, '-', '.', ':' and '_'.                     *)
(***************************************************************************)
CharAt(s, i) == SubSeq(s, i, i)

\* The byte of a character.
ByteOf(c) ==
  LET Digits == "0123456789"
      Upper == "ABCDEFGHIJKLMNOPQRSTUVWXYZ"
      Lower == "abcdefghijklmnopqrstuvwxyz"
      Has(tbl) == \E i \in 1..Len(tbl) : CharAt(tbl, i) = c
      IndexIn(tbl) == CHOOSE i \in 1..Len(tbl) : CharAt(tbl, i) = c
  IN  CASE c = " " -> 32
        [] c = "-" -> 45
        [] c = "." -> 46
        [] c = ":" -> 58
        [] c = "_" -> 95
        [] Has(Digits) -> 47 + IndexIn(Digits)
        [] Has(Upper) -> 64 + IndexIn(Upper)
        [] Has(Lower) -> 96 + IndexIn(Lower)

\* a < b for Go strings: the first differing byte decides, a proper prefix
\* is smaller.
RECURSIVE StringLessFrom(_, _, _)
StringLessFrom(a, b, i) ==
  IF i > Len(b) THEN FALSE
  ELSE IF i > Len(a) THEN TRUE
  ELSE IF CharAt(a, i) = CharAt(b, i) THEN StringLessFrom(a, b, i + 1)
  ELSE ByteOf(CharAt(a, i)) < ByteOf(CharAt(b, i))

StringLess(a, b) == StringLessFrom(a, b, 1)

\* The inner loop of insertion sort: data[j] moves left while it is less
\* than its left neighbour.
RECURSIVE SiftStrings(_, _)
SiftStrings(data, j) ==
  IF j > 1 /\ StringLess(data[j], data[j - 1])
  THEN SiftStrings([data EXCEPT ![j] = data[j - 1], ![j - 1] = data[j]], j - 1)
  ELSE data

RECURSIVE InsertionSortStrings(_, _)
InsertionSortStrings(data, i) ==
  IF i > Len(data) THEN data
  ELSE InsertionSortStrings(SiftStrings(data, i), i + 1)

SortStringsSkipped(x) == x

\* sort.Strings(x).  For the slices the model builds (at most 12 elements)
\* the library sorts by insertion.
SortStrings(x) == InsertionSortStrings(x, 2)

\* sort.Slice(x, less) with less(i, j) = key(x[i]) > key(x[j]): given the
\* keys of the elements, the order of the elements after the sort as a
\* sequence of their indices before it.  For slices of at most 12
\* elements the library sorts by insertion (SiftDescFrom and
\* InsertionSortDescRange below), which keeps the relative order of
\* elements with equal keys.
\* Slices of more than maxInsertion elements go through one round of the
\* library's pattern-defeating quicksort before the insertion sorts: a
\* pivot is chosen as the median of three, a slice found sorted is left as
\* it is, and otherwise the slice is partitioned around the pivot, which
\* moves elements with equal keys past each other.  The definitions below
\* follow that round for slices of maxInsertion + 1 elements, where both
\* parts of the partition have at most maxInsertion elements and are
\* sorted by insertion.  On a longer slice the library goes on with
\* further rounds on a part of more than maxInsertion elements (pattern
\* breaking after an unbalanced partition, partitionEqual, heapSort); the
\* model has no slice that long and leaves the sort undefined there.
maxInsertion == 12

\* less(data[x], data[y]) of the descending sorts.
LessDesc(keys, perm, x, y) == keys[perm[x]] > keys[perm[y]]

SwapAt(perm, x, y) == [perm EXCEPT ![x] = perm[y], ![y] = perm[x]]

\* order2: the positions a and b in the order of their elements, and the
\* count of swaps.
order2(keys, perm, a, b, swaps) ==
  IF LessDesc(keys, perm, b, a) THEN [lo |-> b, hi |-> a, swaps |-> swaps + 1]
  ELSE [lo |-> a, hi |-> b, swaps |-> swaps]

\* median: the position among a, b, c of the median element.
median(keys, perm, a, b, c) ==
  LET r1 == order2(keys, perm, a, b, 0)
      r2 == order2(keys, perm, r1.hi, c, r1.swaps)
      r3 == order2(keys, perm, r1.lo, r2.lo, r2.swaps)
  IN  [pivot |-> r3.hi, swaps |-> r3.swaps]

\* choosePivot for a slice of 8 to 49 elements: the median of the elements
\* at a quarter, a half and three quarters; without a swap the slice is
\* hinted to be increasing.
choosePivot(keys, perm) ==
  LET q == Len(perm) \div 4
      m == median(keys, perm, 1 + q, 1 + 2 * q, 1 + 3 * q)
  IN  [pivot |-> m.pivot, increasing |-> m.swaps = 0]

\* partialInsertionSort on a slice of less than 50 elements: true when the
\* slice is sorted, and no element is moved.
partialInsertionSort(keys, perm) ==
  \A i \in 2..Len(perm) : ~LessDesc(keys, perm, i, i - 1)

RECURSIVE scanUp(_, _, _, _, _)
scanUp(keys, perm, i, j, a) ==
  IF i <= j /\ LessDesc(keys, perm, i, a) THEN scanUp(keys, perm, i + 1, j, a) ELSE i

RECURSIVE scanDown(_, _, _, _, _)
scanDown(keys, perm, i, j, a) ==
  IF i <= j /\ ~LessDesc(keys, perm, j, a) THEN scanDown(keys, perm, i, j - 1, a) ELSE j

RECURSIVE partitionLoop(_, _, _, _, _)
partitionLoop(keys, perm, i, j, a) ==
  LET i2 == scanUp(keys, perm, i, j, a)
      j2 == scanDown(keys, perm, i2, j, a)
  IN  IF i2 > j2 THEN [perm |-> perm, j |-> j2]
      ELSE partitionLoop(keys, SwapAt(perm, i2, j2), i2 + 1, j2 - 1, a)

\* partition: the pivot goes to the front, the elements before it in the
\* order are gathered on the left, and the pivot is put between the parts.
partition(keys, perm, pivot) ==
  LET r == partitionLoop(keys, SwapAt(perm, 1, pivot), 2, Len(perm), 1)
  IN  [perm |-> SwapAt(r.perm, r.j, 1), mid |-> r.j]

RECURSIVE SiftDescFrom(_, _, _, _)
SiftDescFrom(keys, perm, a, j) ==
  IF j > a /\ LessDesc(keys, perm, j, j - 1)
  THEN SiftDescFrom(keys, SwapAt(perm, j, j - 1), a, j - 1)
  ELSE perm

\* insertionSort of the positions a..b.
RECURSIVE InsertionSortDescRange(_, _, _, _, _)
InsertionSortDescRange(keys, perm, a, i, b) ==
  IF i > b THEN perm
  ELSE InsertionSortDescRange(keys, SiftDescFrom(keys, perm, a, i), a, i + 1, b)

\* The round on a slice of maxInsertion + 1 elements.
pdqsortDesc(keys, perm) ==
  LET c == choosePivot(keys, perm)
      p == partition(keys, perm, c.pivot)
      left == InsertionSortDescRange(keys, p.perm, 1, 2, p.mid - 1)
  IN  IF c.increasing /\ partialInsertionSort(keys, perm) THEN perm
      ELSE InsertionSortDescRange(keys, left, p.mid + 1, p.mid + 2, Len(perm))

\* Defined for slices of at most maxInsertion + 1 elements.
SortSliceDesc(keys) ==
  CASE Len(keys) <= maxInsertion ->
         InsertionSortDescRange(keys, [i \in 1..Len(keys) |-> i], 1, 2, Len(keys))
    [] Len(keys) = maxInsertion + 1 ->
         pdqsortDesc(keys, [i \in 1..Len(keys) |-> i])

Permute(x, perm) == [p \in 1..Len(perm) |-> x[perm[p]]]

(***************************************************************************)
(* Maps.                                                                   *)
(***************************************************************************)
EmptyMap == [k \in {} |-> ""]

\* for k, v := range m: Go leaves the iteration order of a map unspecified
\* and randomises it, so a range may visit the keys in any order: every
\* sequence that lists each key exactly once.
RangeOrders(m) ==
  LET n == Cardinality(DOMAIN m)
  IN  {o \in [1..n -> DOMAIN m] : \A i, j \in 1..n : o[i] = o[j] => i = j}

(***************************************************************************)
(* Durations and their formatting.                                         *)
(***************************************************************************)
TickNanos == 500 * 1000

Millisecond == 1000000

Second == 1000000000

Nanoseconds(d) == d * TickNanos

\* d.Milliseconds(): integer division truncating toward zero.
Milliseconds(d) ==
  IF Nanoseconds(d) >= 0 THEN Nanoseconds(d) \div Millisecond
  ELSE -((-Nanoseconds(d)) \div Millisecond)

\* float64 arithmetic.  A significand has 53 bits, more than an integer of
\* the model holds, so a natural number is kept as the sequence of its
\* digits in base 2^15, the least significant first, and a float64 as
\* [neg, m, e]: the value m * 2^e with m of at most 53 bits, negative
\* when neg (a zero keeps its sign).  The operators are written without
\* recursion over the digits, and a sequence of digits is concatenated
\* with <<>> to have its digits computed once.
Base == 2^15

\* a + b, without zero digits at its end.
BigAdd(a, b) ==
  LET s(i) == (IF i <= Len(a) THEN a[i] ELSE 0) + (IF i <= Len(b) THEN b[i] ELSE 0)
      carry(i) == IF \E j \in 1..(i - 1) :
                       s(j) >= Base /\ \A l \in (j + 1)..(i - 1) : s(l) = Base - 1
                  THEN 1 ELSE 0
      trim(v) ==
        SubSeq(v, 1, Cardinality({i \in 1..Len(v) : \E j \in i..Len(v) : v[j] # 0}))
  IN  trim([i \in 1..((IF Len(a) > Len(b) THEN Len(a) ELSE Len(b)) + 1) |->
              (s(i) + carry(i)) % Base] \o <<>>)

\* a * d for one digit d.
BigMulLimb(a, d) ==
  BigAdd([i \in 1..Len(a) |-> (a[i] * d) % Base] \o <<>>,
         <<0>> \o [i \in 1..Len(a) |-> (a[i] * d) \div Base])

\* a * 2^k.
ShiftLeft(a, k) == [i \in 1..(k \div 15) |-> 0] \o BigMulLimb(a, 2^(k % 15))

\* The number of bits of a, 0 for zero.
BitLen(a) ==
  LET nz == {i \in 1..Len(a) : a[i] # 0}
      top(t) == 15 * (t - 1) + Cardinality({j \in 0..14 : a[t] \div 2^j > 0})
  IN  IF nz = {} THEN 0 ELSE top(CHOOSE i \in nz : \A j \in nz : j <= i)

\* n without its k lowest bits, rounded to the nearest, a tie to the even
\* one; sticky tells that something not zero follows the bits of n.
RoundHalfEven(n, k, sticky) ==
  LET limb(i) == IF i <= Len(n) THEN n[i] ELSE 0
      bit(j) == (limb(j \div 15 + 1) \div 2^(j % 15)) % 2
      kept(a, b) ==
        [i \in 1..Len(n) |->
           limb(i + a) \div 2^b + (limb(i + a + 1) % 2^b) * 2^(15 - b)] \o <<>>
      up == /\ bit(k - 1) = 1
            /\ (sticky \/ bit(k) = 1 \/ \E j \in 0..(k - 2) : bit(j) = 1)
  IN  IF k <= 0 THEN n
      ELSE BigAdd(kept(k \div 15, k % 15), IF up THEN <<1>> ELSE <<>>)

\* The quotient q and the remainder r of p by q0, digit by digit from the
\* most significant digit of p.  The last digit of q0 is at least Base / 2,
\* so that the quotient of the two leading digits of the running
\* remainder by it is the digit of the quotient or exceeds it by at most 2.
RECURSIVE BigDivMod(_, _)
BigDivMod(p, q0) ==
  LET limb(u, i) == IF i <= Len(u) THEN u[i] ELSE 0
      Less(u, w) ==
        \E i \in 1..(Len(u) + Len(w)) :
          /\ limb(u, i) < limb(w, i)
          /\ \A l \in (i + 1)..(Len(u) + Len(w)) : limb(u, l) = limb(w, l)
      borrow(u, w, i) ==
        IF \E j \in 1..(i - 1) :
             limb(u, j) < limb(w, j) /\ \A l \in (j + 1)..(i - 1) : limb(u, l) = limb(w, l)
        THEN 1 ELSE 0
      Sub(u, w) ==
        [i \in 1..Len(u) |->
           (limb(u, i) - limb(w, i) - borrow(u, w, i) + 2 * Base) % Base] \o <<>>
      digit(u, est) ==
        CHOOSE c \in ((IF est > Base - 1 THEN Base - 1 ELSE est) - 2)..
                     (IF est > Base - 1 THEN Base - 1 ELSE est) :
          c >= 0 /\ ~Less(u, BigMulLimb(q0, c)) /\ Less(u, BigMulLimb(q0, c + 1))
      with(u, hq, d) == [q |-> <<d>> \o hq, r |-> Sub(u, BigMulLimb(q0, d))]
      next(u, hq) ==
        with(u, hq, digit(u, (limb(u, Len(q0) + 1) * Base + limb(u, Len(q0)))
                               \div q0[Len(q0)]))
      step(h) == next(<<Head(p)>> \o h.r, h.q)
  IN  IF p = <<>> THEN [q |-> <<>>, r |-> <<>>]
      ELSE step(BigDivMod(Tail(p), q0))

\* float64(n) of an integer n of the model: exact.
float64(n) ==
  LET digits(a) == BigAdd(<<a % Base, (a \div Base) % Base, a \div (Base * Base)>>, <<>>)
  IN  [neg |-> n < 0, m |-> digits(IF n < 0 THEN -n ELSE n), e |-> 0]

\* x / y (y not zero): the quotient of the significands is taken to 55
\* bits or more and rounded to 53.  Both are multiplied by 2^t, which
\* brings the last digit of the divisor to Base / 2 or more.
float64Div(x, y) ==
  LET rounded(q, k, r, s) ==
        [neg |-> x.neg # y.neg,
         m |-> RoundHalfEven(q, k, BitLen(r) > 0),
         e |-> x.e - y.e - s + (IF k > 0 THEN k ELSE 0)]
      result(d, s) == rounded(d.q, BitLen(d.q) - 53, d.r, s)
      divide(s, t) == result(BigDivMod(ShiftLeft(x.m, s + t), ShiftLeft(y.m, t)), s)
      bits(by) == divide(55 + by - BitLen(x.m), (15 - (by % 15)) % 15)
  IN  bits(BitLen(y.m))

\* d.Seconds() of a duration of ns nanoseconds:
\* sec := d / Second; nsec := d % Second;
\* float64(sec) + float64(nsec)/1e9, sec and nsec having the sign of d.
Seconds(ns) ==
  LET rounded(sum, k, e) ==
        [neg |-> ns < 0, m |-> RoundHalfEven(sum, k, FALSE),
         e |-> e + (IF k > 0 THEN k ELSE 0)]
      sized(sum, e) == rounded(sum, BitLen(sum) - 53, e)
      add(whole, frac) ==
        IF BitLen(frac.m) = 0 THEN whole
        ELSE sized(BigAdd(ShiftLeft(whole.m, -frac.e), frac.m), frac.e)
      split(sec) ==
        add(float64(sec), float64Div(float64(ns - sec * Second), float64(Second)))
  IN  split(IF ns >= 0 THEN ns \div Second ELSE -((-ns) \div Second))

\* fmt.Sprintf("%.2f", x) with scale 100 and "%.1f" with scale 10: the
\* sign printed and the digits as a number, the decimal nearest to the
\* exact value of x, a tie to the even digit.
Fixed(x, scale) ==
  LET number(v) ==
        (IF 1 <= Len(v) THEN v[1] ELSE 0) + Base * (IF 2 <= Len(v) THEN v[2] ELSE 0)
          + Base * Base * (IF 3 <= Len(v) THEN v[3] ELSE 0)
      scaled(n) ==
        number(IF x.e >= 0 THEN ShiftLeft(n, x.e) ELSE RoundHalfEven(n, -x.e, FALSE))
  IN  [neg |-> x.neg, digits |-> scaled(BigMulLimb(x.m, scale))]

\* What Fixed gives for a float64 computed from the exact value n / m
\* (m > 0) when n / m is not halfway between two integers.  The roundings
\* of the computation move the float64 by less than 10^-15 of its value
\* and n / m is at least 1 / (2 * m) from a tie, so the float64 prints as
\* the integer nearest to n / m, with the sign of n.
Decimal(n, m) ==
  LET nearest(a) == a \div m + (IF 2 * (a % m) > m THEN 1 ELSE 0)
  IN  [neg |-> n < 0, digits |-> nearest(IF n < 0 THEN -n ELSE n)]

\* The text is kept as its unit, its sign and the number printed, in
\* hundredths.  A value that ends in a 5 after the last digit printed is
\* printed from the float64 the code computes, which decides the tie; an
\* integer number of milliseconds prints as it is.
formatDuration(d) ==
  LET text(unit, r) == [unit |-> unit, neg |-> r.neg, hundredths |-> r.digits]
      of(ns) ==
        IF ns < Millisecond
        THEN text("us", IF ns % 10 # 5 THEN Decimal(ns, 10)
                        ELSE Fixed(float64Div(float64(ns), float64(1000)), 100))
        ELSE IF ns < Second
        THEN text("ms", [neg |-> FALSE, digits |-> Milliseconds(d) * 100])
        ELSE text("s", IF ns % 10000000 # 5000000 THEN Decimal(ns, 10000000)
                       ELSE Fixed(Seconds(ns), 100))
  IN  of(Nanoseconds(d))

truncateID(id) == IF Len(id) > 8 THEN SubSeq(id, 1, 8) ELSE id

spanDuration(span) == span.EndTime - span.StartTime

(***************************************************************************)
(* Duration calculator.                                                    *)
(***************************************************************************)
\* The loop of getTraceDuration from span i on, with the earliest start and
\* the latest end seen so far.
RECURSIVE scanEnvelope(_, _, _, _)
scanEnvelope(spans, i, earliest, latest) ==
  IF i > Len(spans) THEN latest - earliest
  ELSE scanEnvelope(spans, i + 1,
         IF spans[i].StartTime < earliest THEN spans[i].StartTime ELSE earliest,
         IF spans[i].EndTime > latest THEN spans[i].EndTime ELSE latest)

\* The sum of the durations of the spans, which the loop does not compute.
RECURSIVE getTraceDurationSum(_)
getTraceDurationSum(t) ==
  IF Len(t.Spans) = 0 THEN 0
  ELSE spanDuration(Head(t.Spans))
         + getTraceDurationSum([t EXCEPT !.Spans = Tail(t.Spans)])

getTraceDuration(t) ==
  IF Len(t.Spans) = 0 THEN 0
  ELSE scanEnvelope(t.Spans, 2, t.Spans[1].StartTime, t.Spans[1].EndTime)

(***************************************************************************)
(* Identity resolver.                                                      *)
(***************************************************************************)
\* The name of the first span from i on that has no parent, "" with found
\* FALSE when there is none.
RECURSIVE findRootSpan(_, _)
findRootSpan(spans, i) ==
  IF i > Len(spans) THEN [found |-> FALSE, name |-> ""]
  ELSE IF spans[i].ParentSpanID = "" THEN [found |-> TRUE, name |-> spans[i].Name]
  ELSE findRootSpan(spans, i + 1)

getTraceIdentifierFirstSpan(t, attr) ==
  IF attr = "trace_id" THEN t.TraceID
  ELSE IF attr = "name"
  THEN IF Len(t.Spans) = 0 THEN "Unknown Trace" ELSE t.Spans[1].Name
  ELSE IF attr \in DOMAIN t.Attributes THEN t.Attributes[attr]
  ELSE IF attr \in DOMAIN t.ResourceAttrs THEN t.ResourceAttrs[attr]
  ELSE t.TraceID

getTraceIdentifier(t, attr) ==
  IF attr = "trace_id" THEN t.TraceID
  ELSE IF attr = "name"
  THEN IF Len(t.Spans) = 0 THEN "Unknown Trace"
       ELSE IF findRootSpan(t.Spans, 1).found THEN findRootSpan(t.Spans, 1).name
       ELSE t.Spans[1].Name
  ELSE IF attr \in DOMAIN t.Attributes THEN t.Attributes[attr]
  ELSE IF attr \in DOMAIN t.ResourceAttrs THEN t.ResourceAttrs[attr]
  ELSE t.TraceID

(***************************************************************************)
(* Inputs.                                                                 *)
(***************************************************************************)
SpanIDs == <<"s1", "s2", "s3", "s4">>

Times == 0..MaxTime

mkSpan(id, parent, name, start, end) ==
  [SpanID |-> id, ParentSpanID |-> parent, Name |-> name, StartTime |-> start,
   EndTime |-> end, Attributes |-> EmptyMap, Events |-> <<>>]

mkTrace(id, spans, attrs, rattrs) ==
  [TraceID |-> id, Spans |-> spans, Attributes |-> attrs, ResourceAttrs |-> rattrs]

mkSet(name, traces) == [Name |-> name, Traces |-> traces]

\* The sequences over S of length lo..hi.
SeqsOf(S, lo, hi) == UNION {[1..n -> S] : n \in lo..hi}

\* Traces that differ in the times of their spans: span i is a root named
\* after its position, with any start and end (an end before the start
\* included).
TimedSpans(i) ==
  {mkSpan(SpanIDs[i], "", SpanIDs[i], s, e) : s \in Times, e \in Times}

TimedTraces ==
  {mkTrace("t1", spans, EmptyMap, EmptyMap) :
     spans \in {sp \in SeqsOf(UNION {TimedSpans(i) : i \in 1..MaxSpans}, 0, MaxSpans) :
                  \A i \in 1..Len(sp) : sp[i].SpanID = SpanIDs[i]}}

\* Traces that differ in what identifies them: the names and parents of
\* their spans, and the attribute maps.
NamedSpans(i) ==
  {mkSpan(SpanIDs[i], p, n, 0, 1) : p \in {"", "s1"}, n \in {"a", "b"}}

AttrMaps(v) == {EmptyMap, [k \in {"k1"} |-> v], [k \in {"k1", "k2"} |-> v]}

NamedTraces ==
  {mkTrace("t1", spans, a, r) :
     spans \in {sp \in SeqsOf(UNION {NamedSpans(i) : i \in 1..MaxSpans}, 0, MaxSpans) :
                  \A i \in 1..Len(sp) : sp[i].SpanID = SpanIDs[i]},
     a \in AttrMaps("va"), r \in AttrMaps("vr")}

Attributes == {"trace_id", "name", "k1", "k2"}

(***************************************************************************)
(* The pure functions, called on one trace.                                *)
(***************************************************************************)
InitPure ==
  /\ \E t \in TimedTraces \cup NamedTraces : traceSets = <<mkSet("f1.json", <<t>>)>>
  /\ decoded = traceSets
  /\ attribute \in Attributes
  /\ calls = <<>>
  /\ run = NoRun

CallGetTraceDuration ==
  /\ Len(calls) < MaxCalls
  /\ \E t \in {traceSets[1].Traces[i] : i \in 1..Len(traceSets[1].Traces)} :
       calls' = Append(calls, [op |-> "getTraceDuration", in |-> t,
                               out |-> getTraceDuration(t)])
  /\ UNCHANGED <<traceSets, decoded, attribute, run>>

CallGetTraceIdentifier ==
  /\ Len(calls) < MaxCalls
  /\ \E t \in {traceSets[1].Traces[i] : i \in 1..Len(traceSets[1].Traces)} :
       calls' = Append(calls, [op |-> "getTraceIdentifier", in |-> <<t, attribute>>,
                               out |-> getTraceIdentifier(t, attribute)])
  /\ UNCHANGED <<traceSets, decoded, attribute, run>>

NextPure == CallGetTraceDuration \/ CallGetTraceIdentifier

SpecPure == InitPure /\ [][NextPure]_vars

(***************************************************************************)
(* Claims about the pure functions.                                        *)
(***************************************************************************)
CallsOf(op) == {calls[i] : i \in {j \in 1..Len(calls) : calls[j].op = op}}

MaxOf(S) == CHOOSE x \in S : \A y \in S : y <= x

MinOf(S) == CHOOSE x \in S : \A y \in S : x <= y

EndTimes(t) == {t.Spans[i].EndTime : i \in 1..Len(t.Spans)}

StartTimes(t) == {t.Spans[i].StartTime : i \in 1..Len(t.Spans)}

\* C1: getTraceDuration returns 0 for a trace with no spans, and otherwise
\* the largest EndTime of its spans minus their smallest StartTime,
\* whatever the order and the overlap of the spans.
C1_TraceDurationIsEnvelope ==
  \A c \in CallsOf("getTraceDuration") :
    c.out = IF Len(c.in.Spans) = 0 THEN 0
            ELSE MaxOf(EndTimes(c.in)) - MinOf(StartTimes(c.in))

\* A call on a trace of two overlapping spans, the earlier-starting one
\* last, whose envelope is not the sum of the span durations.
C1_Witness ==
  \E c \in CallsOf("getTraceDuration") :
    /\ Len(c.in.Spans) = 2
    /\ c.in.Spans[1].StartTime > c.in.Spans[2].StartTime
    /\ c.in.Spans[2].EndTime > c.in.Spans[1].StartTime
    /\ c.out # getTraceDurationSum(c.in)
    /\ c.out = 2

\* C2: getTraceIdentifier follows its rules in order: "trace_id" gives the
\* TraceID; "name" gives "Unknown Trace" without spans, else the name of
\* the first span with an empty ParentSpanID, else the name of the first
\* span; any other attribute gives the trace attribute, else the resource
\* attribute, else the TraceID.
C2_IdentifierRules ==
  \A c \in CallsOf("getTraceIdentifier") :
    LET t == c.in[1]
        a == c.in[2]
        roots == {i \in 1..Len(t.Spans) : t.Spans[i].ParentSpanID = ""}
    IN  /\ a = "trace_id" => c.out = t.TraceID
        /\ a = "name" /\ Len(t.Spans) = 0 => c.out = "Unknown Trace"
        /\ a = "name" /\ roots # {} => c.out = t.Spans[MinOf(roots)].Name
        /\ a = "name" /\ Len(t.Spans) > 0 /\ roots = {} => c.out = t.Spans[1].Name
        /\ a \notin {"trace_id", "name"} /\ a \in DOMAIN t.Attributes
             => c.out = t.Attributes[a]
        /\ a \notin {"trace_id", "name"} /\ a \notin DOMAIN t.Attributes
             /\ a \in DOMAIN t.ResourceAttrs => c.out = t.ResourceAttrs[a]
        /\ a \notin {"trace_id", "name"} /\ a \notin DOMAIN t.Attributes
             /\ a \notin DOMAIN t.ResourceAttrs => c.out = t.TraceID

\* Calls have been made by "name" on a trace whose root span is not its
\* first span and carries another name, and by an attribute found only in
\* the resource attributes.
C2_Witness ==
  /\ \E c \in CallsOf("getTraceIdentifier") :
        /\ c.in[2] = "name"
        /\ Len(c.in[1].Spans) = 2
        /\ c.in[1].Spans[1].ParentSpanID # ""
        /\ c.in[1].Spans[2].ParentSpanID = ""
        /\ c.in[1].Spans[1].Name # c.in[1].Spans[2].Name
        /\ c.out = c.in[1].Spans[2].Name
  \/ \E c \in CallsOf("getTraceIdentifier") :
        /\ c.in[2] = "k2"
        /\ "k2" \notin DOMAIN c.in[1].Attributes
        /\ "k2" \in DOMAIN c.in[1].ResourceAttrs
        /\ c.out = "vr"

(***************************************************************************)
(* Single-set reporter: GenerateMarkdown and showSpan.                     *)
(*                                                                         *)
(* The Spans slice of a Trace shares its backing array with every copy of  *)
(* the Trace value, so the array of the k-th trace of the input is         *)
(* identified by k.  A *Span taken as &t.Spans[i] is the pair of that      *)
(* array and the slot i: it reads whatever span the slot holds when it is  *)
(* dereferenced.                                                           *)
(***************************************************************************)
LastIndex(S) == CHOOSE i \in S : \A j \in S : j <= i

\* spanMap[t.Spans[i].SpanID] = &t.Spans[i], for i ascending: a later span
\* with the same id overwrites the entry.
buildSpanMap(t, k) ==
  [id \in {t.Spans[i].SpanID : i \in 1..Len(t.Spans)} |->
     [arr |-> k,
      slot |-> LastIndex({i \in 1..Len(t.Spans) : t.Spans[i].SpanID = id})]]

\* traceSpanMaps[t.TraceID] = spanMap, for the traces in input order: a
\* later trace with the same TraceID overwrites the entry.
buildTraceSpanMaps(traces) ==
  [tid \in {traces[k].TraceID : k \in 1..Len(traces)} |->
     LET k == LastIndex({j \in 1..Len(traces) : traces[j].TraceID = tid})
     IN  buildSpanMap(traces[k], k)]

\* sort.Slice(traces, by getTraceDuration descending): the order after the
\* sort, as indices into the input.
traceOrder(traces) ==
  SortSliceDesc([k \in 1..Len(traces) |-> getTraceDuration(traces[k])])

sortTraces(traces) == Permute(traces, traceOrder(traces))

\* sort.Slice(spans, by EndTime.Sub(StartTime) descending), in place.
sortSpans(spans) ==
  Permute(spans, SortSliceDesc([i \in 1..Len(spans) |-> spanDuration(spans[i])]))

overviewRow(t) ==
  [TraceID |-> truncateID(t.TraceID), Name |-> getTraceIdentifier(t, "name"),
   Duration |-> formatDuration(getTraceDuration(t)), Spans |-> Len(t.Spans)]

\* The span arrays while the span-detail loop handles the p-th trace of the
\* sorted order: the arrays of the traces at positions 1..p are sorted, the
\* others are as the caller passed them.
arraysAt(traces, perm, p) ==
  [k \in 1..Len(traces) |->
     IF \E q \in 1..p : perm[q] = k THEN sortSpans(traces[k].Spans)
     ELSE traces[k].Spans]

parentNameOf(span, spanMap, arrays) ==
  IF span.ParentSpanID # "" /\ span.ParentSpanID \in DOMAIN spanMap
  THEN arrays[spanMap[span.ParentSpanID].arr][spanMap[span.ParentSpanID].slot].Name
  ELSE "root"

spanDetailRow(t, span, spanMap, arrays) ==
  [TraceID |-> truncateID(t.TraceID), SpanID |-> truncateID(span.SpanID),
   Name |-> span.Name, Duration |-> formatDuration(spanDuration(span)),
   Parent |-> parentNameOf(span, spanMap, arrays)]

\* The rows of the span-detail table for the p-th trace of the sorted order.
spanDetailRows(traces, perm, p) ==
  LET t == traces[perm[p]]
      arrays == arraysAt(traces, perm, p)
      spans == arrays[perm[p]]
  IN  [i \in 1..Len(spans) |->
         spanDetailRow(t, spans[i], buildTraceSpanMaps(traces)[t.TraceID], arrays)]

RECURSIVE FlattenRows(_, _)
FlattenRows(rowsOf, p) ==
  IF p > Len(rowsOf) THEN <<>> ELSE rowsOf[p] \o FlattenRows(rowsOf, p + 1)

\* The traces as the caller's slice holds them when GenerateMarkdown
\* returns: sorted, each with its spans sorted.
sortedInPlace(traces) ==
  [p \in 1..Len(traces) |->
     [sortTraces(traces)[p] EXCEPT !.Spans = sortSpans(sortTraces(traces)[p].Spans)]]

\* The key/value rows a range over map m writes when it visits the keys in
\* the order o.
KVRows(m, o) == [i \in 1..Len(o) |-> <<o[i], m[o[i]]>>]

AttributeListings(m) == {KVRows(m, o) : o \in RangeOrders(m)}

\* What the events loop of showSpan can write from event i on.
RECURSIVE EventListings(_, _)
EventListings(events, i) ==
  IF i > Len(events) THEN {<<>>}
  ELSE {<<[Name |-> events[i].Name, Attributes |-> a]>> \o rest :
          a \in AttributeListings(events[i].Attributes),
          rest \in EventListings(events, i + 1)}

spanEntries(span) ==
  {[Name |-> span.Name, Duration |-> formatDuration(spanDuration(span)),
    Attributes |-> a, Events |-> e] :
     a \in AttributeListings(span.Attributes), e \in EventListings(span.Events, 1)}

\* Whether a chain of nested calls from parentID is longer than fuel.
RECURSIVE chainLongerThan(_, _, _)
chainLongerThan(t, parentID, fuel) ==
  IF fuel = 0 THEN TRUE
  ELSE \E i \in 1..Len(t.Spans) :
         /\ t.Spans[i].ParentSpanID = parentID
         /\ chainLongerThan(t, t.Spans[i].SpanID, fuel - 1)

\* A walk that recurses without end as soon as the trace has a parent
\* cycle, wherever the walk starts.
showSpanDivergesOnAnyCycle(t, parentID, fuel) ==
  \/ chainLongerThan(t, parentID, fuel)
  \/ \E i \in 1..Len(t.Spans) : chainLongerThan(t, t.Spans[i].SpanID, fuel)

\* Whether showSpan(t, parentID) recurses without end.  A chain of nested
\* calls longer than the number of spans shows one span twice, and from
\* there the calls repeat.
RECURSIVE showSpanDiverges(_, _, _)
showSpanDiverges(t, parentID, fuel) ==
  IF fuel = 0 THEN TRUE
  ELSE \E i \in 1..Len(t.Spans) :
         /\ t.Spans[i].ParentSpanID = parentID
         /\ showSpanDiverges(t, t.Spans[i].SpanID, fuel - 1)

\* What the loop of showSpan(t, parentID) can write from span i on, when it
\* returns: for each span with that parent in the order of t.Spans, its
\* entry and then the listing of its children.
RECURSIVE showSpanFrom(_, _, _)
showSpanFrom(t, parentID, i) ==
  IF i > Len(t.Spans) THEN {<<>>}
  ELSE IF t.Spans[i].ParentSpanID # parentID THEN showSpanFrom(t, parentID, i + 1)
  ELSE {<<e>> \o children \o rest :
          e \in spanEntries(t.Spans[i]),
          children \in showSpanFrom(t, t.Spans[i].SpanID, 1),
          rest \in showSpanFrom(t, parentID, i + 1)}

\* A listing of every span of the trace in sequence order, whatever its
\* parent.
RECURSIVE listEverySpanFrom(_, _)
listEverySpanFrom(t, i) ==
  IF i > Len(t.Spans) THEN {<<>>}
  ELSE {<<e>> \o rest : e \in spanEntries(t.Spans[i]),
                        rest \in listEverySpanFrom(t, i + 1)}

showSpanFlat(t, parentID) == listEverySpanFrom(t, 1)

showSpan(t, parentID) == showSpanFrom(t, parentID, 1)

\* The expandable blocks one trace can get.
traceDetailBlocks(t) ==
  {[TraceID |-> truncateID(t.TraceID), Name |-> getTraceIdentifier(t, "name"),
    Attributes |-> a, Spans |-> s] :
     a \in AttributeListings(t.Attributes), s \in showSpan(t, "")}

RECURSIVE traceDetailSections(_, _)
traceDetailSections(traces, p) ==
  IF p > Len(traces) THEN {<<>>}
  ELSE {<<b>> \o rest : b \in traceDetailBlocks(traces[p]),
                        rest \in traceDetailSections(traces, p + 1)}

StackOverflow == [crash |-> "stack overflow"]

\* The reports GenerateMarkdown(traces) can return; a walk that recurses
\* without end exhausts the stack and the process dies.
GenerateMarkdown(traces) ==
  LET perm == traceOrder(traces)
      sorted == sortTraces(traces)
      final == sortedInPlace(traces)
  IN  IF \E p \in 1..Len(final) : showSpanDiverges(final[p], "", Len(final[p].Spans) + 1)
      THEN {StackOverflow}
      ELSE {[Overview |-> [p \in 1..Len(sorted) |-> overviewRow(sorted[p])],
             SpanDetails |->
               FlattenRows([p \in 1..Len(traces) |-> spanDetailRows(traces, perm, p)], 1),
             TraceDetails |-> d] :
              d \in traceDetailSections(final, 1)}

(***************************************************************************)
(* The info command's report over one decoded collection.                  *)
(***************************************************************************)
SpanNames == <<"n1", "n2", "n3", "n4">>

TraceIDs == {"t1", "0af7651916cd43dd"}

\* One trace whose spans differ in parent and duration.
ParentChoices == {""} \cup {SpanIDs[j] : j \in 1..MaxSpans} \cup {"zz"}

LinkedSpans(i) ==
  {mkSpan(SpanIDs[i], p, SpanNames[i], 0, e) : p \in ParentChoices, e \in Times}

LinkedTraces ==
  {mkTrace("t1", spans, EmptyMap, EmptyMap) :
     spans \in {sp \in SeqsOf(UNION {LinkedSpans(i) : i \in 1..MaxSpans}, 0, MaxSpans) :
                  \A i \in 1..Len(sp) : sp[i].SpanID = SpanIDs[i]}}

\* Collections of traces of one root span each, which differ in duration.
RootOnlyTraces ==
  {mkTrace(id, <<mkSpan("s1", "", "a", 0, e)>>, EmptyMap, EmptyMap) :
     id \in TraceIDs, e \in Times}

\* One trace of one span, with attribute maps on the trace, the span and
\* an event.
EventChoices ==
  {<<>>} \cup {<<[Time |-> 0, Name |-> "ev", Attributes |-> a]>> : a \in AttrMaps("ve")}

AttributedTraces ==
  {mkTrace("t1",
           <<[mkSpan("s1", "", "a", 0, 1) EXCEPT !.Attributes = sa, !.Events = ev]>>,
           ta, EmptyMap) :
     ta \in AttrMaps("va"), sa \in AttrMaps("vs"), ev \in EventChoices}

\* Collections of maxInsertion + 1 traces of one root span each, of which
\* at most MaxTraces have a duration above zero.
LongIDs ==
  <<"t01", "t02", "t03", "t04", "t05", "t06", "t07", "t08", "t09", "t10", "t11",
    "t12", "t13">>

LongCollections ==
  {[k \in 1..(maxInsertion + 1) |->
      mkTrace(LongIDs[k], <<mkSpan("s1", "", "a", 0, IF k \in S THEN 1 ELSE 0)>>,
              EmptyMap, EmptyMap)] :
     S \in {T \in SUBSET (1..(maxInsertion + 1)) : Cardinality(T) <= MaxTraces}}

\* One trace whose spans can have an empty id or share an id, so that the
\* parent links can lead from the empty parent id into a cycle.
LoopingSpans(i) ==
  {mkSpan(id, p, SpanNames[i], 0, 1) : id \in {"", "s1", "s2"}, p \in {"", "s1", "s2"}}

LoopingTraces ==
  {mkTrace("t1", spans, EmptyMap, EmptyMap) :
     spans \in SeqsOf(UNION {LoopingSpans(i) : i \in 1..MaxSpans}, 1, MaxSpans)}

Collections ==
  {<<t>> : t \in LinkedTraces \cup AttributedTraces \cup LoopingTraces}
    \cup SeqsOf(RootOnlyTraces, 0, MaxTraces)
    \cup LongCollections

Init ==
  /\ \E c \in Collections : traceSets = <<mkSet("f1.json", c)>>
  /\ decoded = traceSets
  /\ attribute = "name"
  /\ calls = <<>>
  /\ run = NoRun

CallGenerateMarkdown ==
  /\ Len(calls) < MaxCalls
  /\ \E r \in GenerateMarkdown(traceSets[1].Traces) :
       calls' = Append(calls, [op |-> "GenerateMarkdown", in |-> traceSets[1].Traces,
                               out |-> r])
  /\ traceSets' = [traceSets EXCEPT ![1].Traces = sortedInPlace(traceSets[1].Traces)]
  /\ UNCHANGED <<decoded, attribute, run>>

Next == CallGenerateMarkdown

Spec == Init /\ [][Next]_vars

(***************************************************************************)
(* Claims about GenerateMarkdown.                                          *)
(***************************************************************************)
\* The calls of GenerateMarkdown that returned a report.
Reports == {c \in CallsOf("GenerateMarkdown") : c.out # StackOverflow}

SpansOf(t) == {t.Spans[i] : i \in 1..Len(t.Spans)}

TracesOf(traces) == {traces[k] : k \in 1..Len(traces)}

\* The Parent cell the span-detail table is to show for a span of t.
ExpectedParent(t, span) ==
  IF span.ParentSpanID = "" THEN "root"
  ELSE IF \E q \in SpansOf(t) : q.SpanID = span.ParentSpanID
  THEN (CHOOSE q \in SpansOf(t) : q.SpanID = span.ParentSpanID).Name
  ELSE "root"

\* C3: in the span-detail table the Parent cell of every span is "root"
\* when it has no parent id, the Name of the span of the same trace with
\* that id when there is one, whatever the order and the durations of the
\* spans, and "root" when no span of the trace has that id.
C3_ParentCellNamesParent ==
  \A c \in Reports : \A t \in TracesOf(c.in) : \A span \in SpansOf(t) :
    \E i \in 1..Len(c.out.SpanDetails) :
      LET row == c.out.SpanDetails[i]
      IN  /\ row.TraceID = truncateID(t.TraceID)
          /\ row.SpanID = truncateID(span.SpanID)
          /\ row.Name = span.Name
          /\ row.Parent = ExpectedParent(t, span)

PositionsOf(listing, name) == {q \in 1..Len(listing) : listing[q].Name = name}

\* C4: in the expandable section of a trace, spans of the same level (the
\* same ParentSpanID) are listed in the order they have in the span
\* sequence the caller passed in.
C4_HierarchyInCallerOrder ==
  \A c \in Reports : \A p \in 1..Len(c.in) :
    LET t == sortTraces(c.in)[p]
        listing == c.out.TraceDetails[p].Spans
    IN  \A i, j \in 1..Len(t.Spans) :
          i < j /\ t.Spans[i].ParentSpanID = t.Spans[j].ParentSpanID
                /\ t.Spans[i].Name # t.Spans[j].Name
            => \A qi \in PositionsOf(listing, t.Spans[i].Name),
                  qj \in PositionsOf(listing, t.Spans[j].Name) : qi < qj

\* C5: GenerateMarkdown leaves the caller's trace sequence and every
\* trace's span sequence as they were before the call.
C5_InputsUnchanged ==
  [][CallGenerateMarkdown => traceSets' = traceSets]_vars

\* C6: two calls of the same reporter on equal input return the same
\* report.
C6_SameInputSameReport ==
  \A i, j \in 1..Len(calls) :
    calls[i].op = calls[j].op /\ calls[i].in = calls[j].in
      => calls[i].out = calls[j].out

(***************************************************************************)
(* Pairwise comparator: CompareTraces.                                     *)
(***************************************************************************)
\* m[key(x[i])] = &x[i] for i ascending: the last element with a key keeps
\* the entry.  Nothing writes through these pointers, so the entry is kept
\* as the element itself.
RECURSIVE indexByFrom(_, _, _, _)
indexByFrom(x, keys, i, m) ==
  IF i > Len(x) THEN m
  ELSE indexByFrom(x, keys, i + 1,
         [k \in DOMAIN m \cup {keys[i]} |-> IF k = keys[i] THEN x[i] ELSE m[k]])

tracesByName(traces) ==
  indexByFrom(traces, [i \in 1..Len(traces) |-> getTraceIdentifier(traces[i], "name")],
              1, EmptyMap)

\* The index in which the first span with a name keeps the entry.
spansByFirstName(spans) ==
  [n \in {spans[i].Name : i \in 1..Len(spans)} |->
     spans[MinOf({i \in 1..Len(spans) : spans[i].Name = n})]]

spansByName(spans) ==
  indexByFrom(spans, [i \in 1..Len(spans) |-> spans[i].Name], 1, EmptyMap)

\* The elements of the sequence o that are in S, in the order of o.
RECURSIVE Filter(_, _, _)
Filter(o, S, i) ==
  IF i > Len(o) THEN <<>>
  ELSE (IF o[i] \in S THEN <<o[i]>> ELSE <<>>) \o Filter(o, S, i + 1)

\* The slices a loop "for name := range m { if name in S { append } }"
\* followed by sort.Strings can leave, one for each order of the range.
sortedKeysIn(m, S) == {SortStrings(Filter(o, S, 1)) : o \in RangeOrders(m)}

\* (diff.Seconds() / base.Seconds()) * 100 printed with %.1f, kept as its
\* sign and tenths of a percent; a float division by zero gives NaN or an
\* infinity.  The sign is that of the quotient, kept by a zero.  A
\* percentage that ends in a 5 after the tenths is printed from the
\* float64 the code computes, which decides the tie.
percentChange(diff, base) ==
  LET rounded(neg, product, k, e) ==
        [neg |-> neg, m |-> RoundHalfEven(product, k, FALSE),
         e |-> e + (IF k > 0 THEN k ELSE 0)]
      sized(neg, product, e) == rounded(neg, product, BitLen(product) - 53, e)
      times100(quotient) == sized(quotient.neg, BigMulLimb(quotient.m, 100), quotient.e)
      tenths(a, b) ==
        IF (2000 * a) % (2 * b) # b THEN Decimal(1000 * a, b)
        ELSE Fixed(times100(float64Div(Seconds(Nanoseconds(diff)),
                                       Seconds(Nanoseconds(base)))), 10)
  IN  IF base = 0
      THEN (IF diff = 0 THEN [text |-> "NaN"]
            ELSE IF diff > 0 THEN [text |-> "+Inf"] ELSE [text |-> "-Inf"])
      ELSE [neg |-> (diff < 0) # (base < 0),
            tenths |-> tenths(IF diff < 0 THEN -diff ELSE diff,
                              IF base < 0 THEN -base ELSE base).digits]

spanComparisonRow(name, span1, span2) ==
  [Name |-> name,
   First |-> formatDuration(spanDuration(span1)),
   Second |-> formatDuration(spanDuration(span2)),
   Difference |-> formatDuration(spanDuration(span2) - spanDuration(span1)),
   Change |-> percentChange(spanDuration(span2) - spanDuration(span1),
                            spanDuration(span1))]

\* The span-comparison tables of two matched traces: a row for each key of
\* spans1Map that is a key of spans2Map, in the order of the range.
spanComparisons(t1, t2) ==
  LET spans1Map == spansByName(t1.Spans)
      spans2Map == spansByName(t2.Spans)
  IN  {[i \in 1..Len(Filter(o, DOMAIN spans2Map, 1)) |->
          LET name == Filter(o, DOMAIN spans2Map, 1)[i]
          IN  spanComparisonRow(name, spans1Map[name], spans2Map[name])] :
         o \in RangeOrders(spans1Map)}

matchingBlocks(name, t1, t2) ==
  {[Name |-> name,
    First |-> formatDuration(getTraceDuration(t1)),
    Second |-> formatDuration(getTraceDuration(t2)),
    Difference |-> formatDuration(getTraceDuration(t2) - getTraceDuration(t1)),
    Change |-> percentChange(getTraceDuration(t2) - getTraceDuration(t1),
                             getTraceDuration(t1)),
    Spans |-> rows] :
     rows \in spanComparisons(t1, t2)}

RECURSIVE matchingSections(_, _, _, _)
matchingSections(names, m1, m2, i) ==
  IF i > Len(names) THEN {<<>>}
  ELSE {<<b>> \o rest : b \in matchingBlocks(names[i], m1[names[i]], m2[names[i]]),
                        rest \in matchingSections(names, m1, m2, i + 1)}

\* The reports with the list matching of matched names.
compareReports(matching, traces1Map, traces2Map) ==
  {[Matching |-> matching, OnlyInFirst |-> first, OnlyInSecond |-> second,
    Summary |-> [Matching |-> Len(matching), OnlyInFirst |-> Len(first),
                 OnlyInSecond |-> Len(second)],
    Blocks |-> blocks] :
     first \in sortedKeysIn(traces1Map, DOMAIN traces1Map \ DOMAIN traces2Map),
     second \in sortedKeysIn(traces2Map, DOMAIN traces2Map \ DOMAIN traces1Map),
     blocks \in matchingSections(matching, traces1Map, traces2Map, 1)}

\* The reports CompareTraces(traces1, traces2) can return.
CompareTraces(traces1, traces2) ==
  UNION {compareReports(matching, tracesByName(traces1), tracesByName(traces2)) :
           matching \in sortedKeysIn(tracesByName(traces1),
                                     DOMAIN tracesByName(traces2))}

(***************************************************************************)
(* CompareTraces over two decoded collections.                             *)
(***************************************************************************)
\* Traces that differ in their identity by name: no span, or one root span.
IdentityTraces ==
  {mkTrace("t1", <<>>, EmptyMap, EmptyMap)}
    \cup {mkTrace("t1", <<mkSpan("s1", "", n, 0, 1)>>, EmptyMap, EmptyMap) :
            n \in {"a", "ab", "b"}}

\* Traces of root spans that start together and differ in their ends.
EndingSpans(i) == {mkSpan(SpanIDs[i], "", SpanNames[i], 0, e) : e \in Times}

EndingTraces ==
  {mkTrace("t1", spans, EmptyMap, EmptyMap) :
     spans \in {sp \in SeqsOf(UNION {EndingSpans(i) : i \in 1..MaxSpans}, 1, MaxSpans) :
                  \A i \in 1..Len(sp) : sp[i].SpanID = SpanIDs[i]}}

\* Traces of root spans named "a" or "b", so that spans of a trace can share
\* a name and a name can be missing from a trace, with different durations.
SharedNameSpans(i) == {mkSpan(SpanIDs[i], "", n, 0, e) : n \in {"a", "b"}, e \in {1, 2}}

SharedNameTraces ==
  {mkTrace("t1", spans, EmptyMap, EmptyMap) :
     spans \in {sp \in SeqsOf(UNION {SharedNameSpans(i) : i \in 1..MaxSpans}, 1, MaxSpans) :
                  \A i \in 1..Len(sp) : sp[i].SpanID = SpanIDs[i]}}

withEndTime(t, i, e) == [t EXCEPT !.Spans[i].EndTime = e]

\* Pairs of collections: any two collections of identity traces, a
\* one-trace collection paired with itself after one span got another end,
\* and any two one-trace collections of traces with shared span names.
CollectionPairs ==
  (SeqsOf(IdentityTraces, 0, MaxTraces) \X SeqsOf(IdentityTraces, 0, MaxTraces))
    \cup {pair \in UNION {{<<(<<t>>), (<<withEndTime(t, i, e)>>)>> :
                             i \in 1..Len(t.Spans), e \in Times} :
                          t \in EndingTraces} :
            pair[1] # pair[2]}
    \cup {<<(<<t1>>), (<<t2>>)>> : t1 \in SharedNameTraces, t2 \in SharedNameTraces}

InitCompare ==
  /\ \E pair \in CollectionPairs :
       traceSets = <<mkSet("f1.json", pair[1]), mkSet("f2.json", pair[2])>>
  /\ decoded = traceSets
  /\ attribute = "name"
  /\ calls = <<>>
  /\ run = NoRun

CallCompareTraces ==
  /\ Len(calls) < MaxCalls
  /\ Len(traceSets) = 2
  /\ \E r \in CompareTraces(traceSets[1].Traces, traceSets[2].Traces) :
       calls' = Append(calls, [op |-> "CompareTraces",
                               in |-> <<traceSets[1].Traces, traceSets[2].Traces>>,
                               out |-> r])
  /\ UNCHANGED <<traceSets, decoded, attribute, run>>

NextCompare == CallCompareTraces

SpecCompare == InitCompare /\ [][NextCompare]_vars

(***************************************************************************)
(* Claims about CompareTraces.                                             *)
(***************************************************************************)
Comparisons == CallsOf("CompareTraces")

Elements(x) == {x[i] : i \in 1..Len(x)}

NamesOf(traces) == {getTraceIdentifier(traces[i], "name") : i \in 1..Len(traces)}

StrictlyAscending(x) == \A i \in 1..(Len(x) - 1) : StringLess(x[i], x[i + 1])

\* The second collection is the first with another EndTime in one span of
\* its one trace.
DiffersInOneEndTime(traces1, traces2) ==
  /\ Len(traces1) = 1
  /\ Len(traces2) = 1
  /\ Len(traces1[1].Spans) = Len(traces2[1].Spans)
  /\ \E i \in 1..Len(traces1[1].Spans) :
       /\ traces2[1].Spans[i].EndTime # traces1[1].Spans[i].EndTime
       /\ traces2 = <<withEndTime(traces1[1], i, traces2[1].Spans[i].EndTime)>>

BlockOf(report, name) ==
  CHOOSE b \in Elements(report.Blocks) : b.Name = name

\* C9 as stated: two collections that share one identity and differ only
\* in the EndTime of one span are reported under Matching Traces with a
\* nonzero trace duration difference.
C9_OneEndTimeGivesNonzeroDifference ==
  \A c \in Comparisons :
    DiffersInOneEndTime(c.in[1], c.in[2]) =>
      LET name == getTraceIdentifier(c.in[1][1], "name")
      IN  /\ c.out.Matching = <<name>>
          /\ BlockOf(c.out, name).Difference # formatDuration(0)

\* C9 as amended: they are reported under Matching Traces, the difference
\* shown is that of the two envelopes, and it is nonzero exactly when the
\* change moves the latest EndTime of the trace.
C9_DifferenceIsEnvelopeDifference ==
  \A c \in Comparisons :
    DiffersInOneEndTime(c.in[1], c.in[2]) =>
      LET name == getTraceIdentifier(c.in[1][1], "name")
          t1 == c.in[1][1]
          t2 == c.in[2][1]
          d1 == MaxOf(EndTimes(t1)) - MinOf(StartTimes(t1))
          d2 == MaxOf(EndTimes(t2)) - MinOf(StartTimes(t2))
      IN  /\ c.out.Matching = <<name>>
          /\ c.out.Summary.Matching = 1
          /\ Len(c.out.Blocks) = 1
          /\ BlockOf(c.out, name).First = formatDuration(d1)
          /\ BlockOf(c.out, name).Second = formatDuration(d2)
          /\ BlockOf(c.out, name).Difference = formatDuration(d2 - d1)
          /\ (BlockOf(c.out, name).Difference # formatDuration(0))
               <=> (MaxOf(EndTimes(t2)) # MaxOf(EndTimes(t1)))

\* A comparison of two-span traces where the changed span is not the one
\* that ends last, and the difference shown is zero.
C9_Witness ==
  \E c \in Comparisons :
    /\ DiffersInOneEndTime(c.in[1], c.in[2])
    /\ Len(c.in[1][1].Spans) = 2
    /\ c.in[1][1].Spans[1].EndTime # c.in[2][1].Spans[1].EndTime
    /\ c.in[1][1].Spans[2].EndTime > c.in[1][1].Spans[1].EndTime
    /\ c.in[2][1].Spans[2].EndTime > c.in[2][1].Spans[1].EndTime
    /\ c.out.Matching = <<"n1">>
    /\ c.out.Blocks[1].Difference = formatDuration(0)

\* C10: the three lists partition the identities of the two inputs
\* (in both, only in the first, only in the second), each list is strictly
\* ascending in byte order, and the summary counts are the list lengths.
C10_IdentitiesPartitioned ==
  \A c \in Comparisons :
    LET ids1 == NamesOf(c.in[1])
        ids2 == NamesOf(c.in[2])
    IN  /\ Elements(c.out.Matching) = ids1 \cap ids2
        /\ Elements(c.out.OnlyInFirst) = ids1 \ ids2
        /\ Elements(c.out.OnlyInSecond) = ids2 \ ids1
        /\ StrictlyAscending(c.out.Matching)
        /\ StrictlyAscending(c.out.OnlyInFirst)
        /\ StrictlyAscending(c.out.OnlyInSecond)
        /\ c.out.Summary.Matching = Len(c.out.Matching)
        /\ c.out.Summary.OnlyInFirst = Len(c.out.OnlyInFirst)
        /\ c.out.Summary.OnlyInSecond = Len(c.out.OnlyInSecond)
        /\ ids1 \cap ids2 = {} =>
             /\ c.out.Summary.Matching = 0
             /\ Elements(c.out.OnlyInFirst) = ids1
             /\ Elements(c.out.OnlyInSecond) = ids2

\* A comparison of inputs with disjoint identities, the first given out of
\* order.
C10_Witness ==
  \E c \in Comparisons :
    /\ NamesOf(c.in[1]) \cap NamesOf(c.in[2]) = {}
    /\ Len(c.in[1]) = 2
    /\ getTraceIdentifier(c.in[1][1], "name") = "b"
    /\ c.out.OnlyInFirst = <<"ab", "b">>
    /\ c.out.OnlyInSecond = <<"Unknown Trace", "a">>
    /\ c.out.Summary.Matching = 0

\* A comparison with a name in each of the three lists.
C10_WitnessThreeLists ==
  \E c \in Comparisons :
    /\ c.out.Matching = <<"a">>
    /\ c.out.OnlyInFirst = <<"b">>
    /\ c.out.OnlyInSecond = <<"ab">>

(***************************************************************************)
(* N-way comparator: CompareMultipleTraces.                                *)
(***************************************************************************)
\* The sequences that take their i-th element from choices[i].
RECURSIVE SeqProduct(_, _)
SeqProduct(choices, i) ==
  IF i > Len(choices) THEN {<<>>}
  ELSE {<<x>> \o rest : x \in choices[i], rest \in SeqProduct(choices, i + 1)}

\* traceMaps[i][getTraceIdentifier(trace, attribute)] = &trace for the
\* traces of set i in order.
buildTraceMaps(sets, attr) ==
  [i \in 1..Len(sets) |->
     indexByFrom(sets[i].Traces,
                 [j \in 1..Len(sets[i].Traces) |->
                    getTraceIdentifier(sets[i].Traces[j], attr)],
                 1, EmptyMap)]

\* A set used as the keys of a map[string]bool.
KeySet(S) == [k \in S |-> TRUE]

\* The names of the first set alone.
allTraceNamesOfFirst(traceMaps) == DOMAIN traceMaps[1]

allTraceNames(traceMaps) == UNION {DOMAIN traceMaps[i] : i \in 1..Len(traceMaps)}

Dash == [text |-> "-"]

\* The loop that compares the first duration with the others from i on.
RECURSIVE diffLoop(_, _, _, _)
diffLoop(durations, i, maxDiff, isSlowerThanAny) ==
  IF i > Len(durations)
  THEN [maxDiff |-> maxDiff, isSlowerThanAny |-> isSlowerThanAny]
  ELSE IF durations[i] > 0
  THEN LET d == durations[i] - durations[1]
           diff == IF d < 0 THEN -d ELSE d
       IN  diffLoop(durations, i + 1,
                    IF diff > maxDiff THEN diff ELSE maxDiff,
                    isSlowerThanAny \/ durations[1] > durations[i])
  ELSE diffLoop(durations, i + 1, maxDiff, isSlowerThanAny)

\* The loop without the test "durations[i] > 0".
RECURSIVE diffLoopAll(_, _, _, _)
diffLoopAll(durations, i, maxDiff, isSlowerThanAny) ==
  IF i > Len(durations)
  THEN [maxDiff |-> maxDiff, isSlowerThanAny |-> isSlowerThanAny]
  ELSE LET d == durations[i] - durations[1]
           diff == IF d < 0 THEN -d ELSE d
       IN  diffLoopAll(durations, i + 1,
                       IF diff > maxDiff THEN diff ELSE maxDiff,
                       isSlowerThanAny \/ durations[1] > durations[i])

durationDiffCellAll(durations) ==
  IF Len(durations) > 1
  THEN LET r == diffLoopAll(durations, 2, 0, FALSE)
       IN  IF r.maxDiff > 0
           THEN [indicator |-> IF r.isSlowerThanAny THEN "green" ELSE "red",
                 text |-> formatDuration(r.maxDiff)]
           ELSE Dash
  ELSE Dash

durationDiffCellFlipped(durations) ==
  IF Len(durations) > 1
  THEN LET r == diffLoop(durations, 2, 0, FALSE)
       IN  IF r.maxDiff > 0
           THEN [indicator |-> IF r.isSlowerThanAny THEN "red" ELSE "green",
                 text |-> formatDuration(r.maxDiff)]
           ELSE Dash
  ELSE Dash

\* The duration-diff cell of a row, of traces and of spans alike: the red
\* circle, or the green one when the first duration is greater than a
\* compared one, and the largest difference; a dash without a difference.
durationDiffCell(durations) ==
  IF Len(durations) > 1
  THEN LET r == diffLoop(durations, 2, 0, FALSE)
       IN  IF r.maxDiff > 0
           THEN [indicator |-> IF r.isSlowerThanAny THEN "green" ELSE "red",
                 text |-> formatDuration(r.maxDiff)]
           ELSE Dash
  ELSE Dash

\* The durations a summary row compares: 0 for a set without the name.
summaryDurations(name, traceMaps) ==
  [i \in 1..Len(traceMaps) |->
     IF name \in DOMAIN traceMaps[i] THEN getTraceDuration(traceMaps[i][name]) ELSE 0]

summaryRow(name, traceMaps) ==
  [Name |-> name,
   Present |-> [i \in 1..Len(traceMaps) |-> name \in DOMAIN traceMaps[i]],
   Diff |-> durationDiffCell(summaryDurations(name, traceMaps))]

\* Presence tested as the diff loop tests it, by a duration above zero.
existsWithDuration(name, traceMaps) ==
  \A i \in 1..Len(traceMaps) :
    name \in DOMAIN traceMaps[i] /\ getTraceDuration(traceMaps[i][name]) > 0

existsInAll(name, traceMaps) ==
  \A i \in 1..Len(traceMaps) : name \in DOMAIN traceMaps[i]

attributeRow(key, name, traceMaps) ==
  [Key |-> key,
   Values |-> [i \in 1..Len(traceMaps) |->
                 LET trace == traceMaps[i][name]
                 IN  IF key \in DOMAIN trace.Attributes THEN trace.Attributes[key]
                     ELSE IF key \in DOMAIN trace.ResourceAttrs
                     THEN trace.ResourceAttrs[key]
                     ELSE ""]]

\* The first span of the trace with that name: the loops break at it.
firstSpanNamed(trace, spanName) ==
  LET hits == {j \in 1..Len(trace.Spans) : trace.Spans[j].Name = spanName}
  IN  IF hits = {} THEN [found |-> FALSE]
      ELSE [found |-> TRUE, span |-> trace.Spans[MinOf(hits)]]

Miss == [text |-> "miss"]

spanCells(spanName, name, traceMaps) ==
  [i \in 1..Len(traceMaps) |->
     LET f == firstSpanNamed(traceMaps[i][name], spanName)
     IN  IF f.found THEN formatDuration(spanDuration(f.span)) ELSE Miss]

spanDurations(spanName, name, traceMaps) ==
  [i \in 1..Len(traceMaps) |->
     LET f == firstSpanNamed(traceMaps[i][name], spanName)
     IN  IF f.found THEN spanDuration(f.span) ELSE 0]

\* The "key: value" texts of a span's attributes, appended in the order of
\* the range and then sorted.
attributeCells(span) ==
  {SortStrings([j \in 1..Len(o) |-> o[j] \o ": " \o span.Attributes[o[j]]]) :
     o \in RangeOrders(span.Attributes)}

spanAttributeCells(spanName, name, traceMaps) ==
  SeqProduct([i \in 1..Len(traceMaps) |->
                LET f == firstSpanNamed(traceMaps[i][name], spanName)
                IN  IF f.found THEN attributeCells(f.span) ELSE {<<>>}], 1)

spanRows(spanName, name, traceMaps) ==
  {[Name |-> spanName,
    Cells |-> spanCells(spanName, name, traceMaps),
    Diff |-> durationDiffCell(spanDurations(spanName, name, traceMaps)),
    Attributes |-> a] :
     a \in spanAttributeCells(spanName, name, traceMaps)}

allAttrKeys(name, traceMaps) ==
  UNION {DOMAIN traceMaps[i][name].Attributes \cup DOMAIN traceMaps[i][name].ResourceAttrs :
           i \in 1..Len(traceMaps)}

allSpanNames(name, traceMaps) ==
  UNION {{traceMaps[i][name].Spans[j].Name : j \in 1..Len(traceMaps[i][name].Spans)} :
           i \in 1..Len(traceMaps)}

sortedKeys(S) == sortedKeysIn(KeySet(S), S)

\* The detailed blocks a name present in every set can get.
detailBlocks(name, traceMaps) ==
  UNION {UNION {{[Name |-> name,
                  Attributes |-> [j \in 1..Len(attrKeys) |->
                                    attributeRow(attrKeys[j], name, traceMaps)],
                  Spans |-> rows] :
                   rows \in SeqProduct([j \in 1..Len(spanNames) |->
                                          spanRows(spanNames[j], name, traceMaps)], 1)} :
                  spanNames \in sortedKeys(allSpanNames(name, traceMaps))} :
           attrKeys \in sortedKeys(allAttrKeys(name, traceMaps))}

\* The names of the sequence that are present in every set, in its order.
RECURSIVE namesInAll(_, _, _)
namesInAll(traceNames, traceMaps, i) ==
  IF i > Len(traceNames) THEN <<>>
  ELSE (IF existsInAll(traceNames[i], traceMaps) THEN <<traceNames[i]>> ELSE <<>>)
         \o namesInAll(traceNames, traceMaps, i + 1)

multiReports(traceNames, traceMaps) ==
  {[TraceNames |-> traceNames,
    Summary |-> [j \in 1..Len(traceNames) |-> summaryRow(traceNames[j], traceMaps)],
    Details |-> d] :
     d \in SeqProduct([j \in 1..Len(namesInAll(traceNames, traceMaps, 1)) |->
                         detailBlocks(namesInAll(traceNames, traceMaps, 1)[j], traceMaps)],
                      1)}

\* The reports CompareMultipleTraces(traceSets, attribute) can return.
CompareMultipleTraces(sets, attr) ==
  UNION {multiReports(traceNames, buildTraceMaps(sets, attr)) :
           traceNames \in sortedKeys(allTraceNames(buildTraceMaps(sets, attr)))}

(***************************************************************************)
(* CompareMultipleTraces over the decoded collections of a compare run.    *)
(***************************************************************************)
\* Collections of at most one trace "t1" of one root span, which differ in
\* the name and the end of the span.
MultiTimes == 0..(MaxTime + 1)

SingleTraceCollections ==
  {<<>>} \cup {<<mkTrace("t1", <<mkSpan("s1", "", n, 0, e)>>, EmptyMap, EmptyMap)>> :
                 n \in {"a", "b"}, e \in MultiTimes}

\* One-trace collections that differ in the attribute maps of the trace and
\* of its span.
AttributedCollections ==
  {<<mkTrace("t1", <<[mkSpan("s1", "", "a", 0, 1) EXCEPT !.Attributes = sa]>>, ta, ra)>> :
     ta \in AttrMaps("va"), sa \in AttrMaps("vs"),
     ra \in {EmptyMap, [k \in {"k2"} |-> "vr"]}}

\* One-trace collections of two root spans "a" and "b" of positive
\* duration.
TwoSpanCollections ==
  {<<mkTrace("t1", <<mkSpan("s1", "", "a", 0, ea), mkSpan("s2", "", "b", 0, eb)>>,
             EmptyMap, EmptyMap)>> :
     ea \in MultiTimes \ {0}, eb \in MultiTimes \ {0}}

\* Collections of up to MaxTraces traces that differ in their id and in the
\* name of their root span, so that two traces of a set can resolve to one
\* identity and the identities of a run depend on the attribute.
IdentifiedTraces ==
  {mkTrace(x[1], <<mkSpan("s1", "", x[2], 0, 1)>>, EmptyMap, EmptyMap) :
     x \in {<<"t1", "a">>, <<"t1", "b">>, <<"t2", "a">>, <<"t2", "ab">>}}

IdentifiedCollections == SeqsOf(IdentifiedTraces, 0, MaxTraces)

FileNames == <<"f1.json", "f2.json", "f3.json", "f4.json">>

namedSets(collections) ==
  [i \in 1..Len(collections) |-> mkSet(FileNames[i], collections[i])]

InitMulti ==
  /\ \/ /\ \E cs \in SeqsOf(SingleTraceCollections, 1, MaxSets) : traceSets = namedSets(cs)
        /\ attribute \in {"name", "trace_id"}
     \/ /\ \E cs \in SeqsOf(AttributedCollections, 2, 2) : traceSets = namedSets(cs)
        /\ attribute = "name"
     \/ /\ \E cs \in SeqsOf(TwoSpanCollections, 3, 3) : traceSets = namedSets(cs)
        /\ attribute = "trace_id"
     \/ /\ \E cs \in SeqsOf(IdentifiedCollections, 2, 2) : traceSets = namedSets(cs)
        /\ attribute \in {"name", "trace_id"}
  /\ decoded = traceSets
  /\ calls = <<>>
  /\ run = NoRun

CallCompareMultipleTraces ==
  /\ Len(calls) < MaxCalls
  /\ \E r \in CompareMultipleTraces(traceSets, attribute) :
       calls' = Append(calls, [op |-> "CompareMultipleTraces",
                               in |-> <<traceSets, attribute>>, out |-> r])
  /\ UNCHANGED <<traceSets, decoded, attribute, run>>

NextMulti == CallCompareMultipleTraces

SpecMulti == InitMulti /\ [][NextMulti]_vars

(***************************************************************************)
(* Claims about CompareMultipleTraces.                                     *)
(***************************************************************************)
MultiComparisons == CallsOf("CompareMultipleTraces")

\* The traces of a collection that resolve to the identity name.
Resolving(traces, attr, name) ==
  {j \in 1..Len(traces) : getTraceIdentifier(traces[j], attr) = name}

Contains(set, attr, name) == Resolving(set.Traces, attr, name) # {}

\* The trace a set holds for the identity: the last one that resolves to it.
TraceFor(set, attr, name) == set.Traces[MaxOf(Resolving(set.Traces, attr, name))]

\* The duration of each set for the identity, 0 for a set without it.
TraceDurations(sets, attr, name) ==
  [i \in 1..Len(sets) |->
     IF Contains(sets[i], attr, name)
     THEN LET t == TraceFor(sets[i], attr, name)
          IN  IF Len(t.Spans) = 0 THEN 0
              ELSE MaxOf(EndTimes(t)) - MinOf(StartTimes(t))
     ELSE 0]

\* The duration of each set for a span name within the identity, 0 for a
\* set whose trace has no span of that name.
SpanDurations(sets, attr, name, spanName) ==
  [i \in 1..Len(sets) |->
     LET t == TraceFor(sets[i], attr, name)
         hits == {j \in 1..Len(t.Spans) : t.Spans[j].Name = spanName}
     IN  IF hits = {} THEN 0
         ELSE t.Spans[MinOf(hits)].EndTime - t.Spans[MinOf(hits)].StartTime]

Abs(x) == IF x < 0 THEN -x ELSE x

\* The largest |ds[i] - ds[1]| over the sets i in others, 0 without any.
MaxDiffOver(ds, others) ==
  IF others = {} THEN 0 ELSE MaxOf({Abs(ds[i] - ds[1]) : i \in others})

Others(ds) == {i \in 2..Len(ds) : TRUE}

Compared(ds) == {i \in 2..Len(ds) : ds[i] > 0}

\* The rows of a report with the durations each was computed from: the
\* summary rows and the span rows of the detailed blocks.
DiffRows(c) ==
  {[diff |-> c.out.Summary[j].Diff,
    ds |-> TraceDurations(c.in[1], c.in[2], c.out.Summary[j].Name)] :
     j \in 1..Len(c.out.Summary)}
  \cup UNION {{[diff |-> c.out.Details[b].Spans[j].Diff,
                ds |-> SpanDurations(c.in[1], c.in[2], c.out.Details[b].Name,
                                     c.out.Details[b].Spans[j].Name)] :
                 j \in 1..Len(c.out.Details[b].Spans)} :
              b \in 1..Len(c.out.Details)}

\* An identity of three sets, present with a positive duration in the
\* first and the third and absent from the second.
PresentAbsentPresent(c, row) ==
  LET sets == c.in[1]
      ds == TraceDurations(sets, c.in[2], row.Name)
  IN  /\ Len(sets) = 3
      /\ Contains(sets[1], c.in[2], row.Name)
      /\ ~Contains(sets[2], c.in[2], row.Name)
      /\ Contains(sets[3], c.in[2], row.Name)
      /\ ds[1] > 0
      /\ ds[3] > 0

\* C7 as stated: the duration-diff cell of a summary row shows the largest
\* |duration - first duration| over every other set, a set without the
\* identity counting as 0; so a row present, absent, present has a nonzero
\* cell, also with equal durations in the first and the third set.
C7_MaxDiffCountsAbsentAsZero ==
  \A c \in MultiComparisons : \A j \in 1..Len(c.out.Summary) :
    LET row == c.out.Summary[j]
        ds == TraceDurations(c.in[1], c.in[2], row.Name)
        m == MaxDiffOver(ds, Others(ds))
    IN  /\ m = 0 => row.Diff = Dash
        /\ m > 0 => row.Diff # Dash /\ row.Diff.text = formatDuration(m)
        /\ PresentAbsentPresent(c, row) =>
             row.Present = <<TRUE, FALSE, TRUE>> /\ row.Diff # Dash

\* C7 as amended: the largest difference is taken over the other sets
\* whose duration is greater than zero, so a set without the identity is
\* skipped; a row present, absent, present has a nonzero cell exactly when
\* the durations of the first and the third set differ.
C7_MaxDiffSkipsAbsent ==
  \A c \in MultiComparisons : \A j \in 1..Len(c.out.Summary) :
    LET row == c.out.Summary[j]
        ds == TraceDurations(c.in[1], c.in[2], row.Name)
        m == MaxDiffOver(ds, Compared(ds))
    IN  /\ m = 0 => row.Diff = Dash
        /\ m > 0 => row.Diff # Dash /\ row.Diff.text = formatDuration(m)
        /\ PresentAbsentPresent(c, row) =>
             /\ row.Present = <<TRUE, FALSE, TRUE>>
             /\ row.Diff # Dash <=> ds[1] # ds[3]

\* A row present, absent, present with equal durations and a dash.
C7_Witness ==
  \E c \in MultiComparisons : \E j \in 1..Len(c.out.Summary) :
    /\ PresentAbsentPresent(c, c.out.Summary[j])
    /\ TraceDurations(c.in[1], c.in[2], c.out.Summary[j].Name)[1]
         = TraceDurations(c.in[1], c.in[2], c.out.Summary[j].Name)[3]
    /\ c.out.Summary[j].Present = <<TRUE, FALSE, TRUE>>
    /\ c.out.Summary[j].Diff = Dash

SmallerThanSome(ds) == \E i \in Others(ds) : ds[1] < ds[i]

GreaterThanSomeCompared(ds) == \E i \in Compared(ds) : ds[1] > ds[i]

\* C8 as stated: with a nonzero largest difference the glyph depends only
\* on whether the first duration is smaller than some other one: two rows
\* get the same glyph exactly when they agree on that; without a
\* difference the cell is a dash.
C8_GlyphBySmallerThanSome ==
  \A c \in MultiComparisons :
    /\ \A r \in DiffRows(c) : MaxDiffOver(r.ds, Compared(r.ds)) = 0 => r.diff = Dash
    /\ \A ra, rb \in {r \in DiffRows(c) : r.diff # Dash} :
         (ra.diff.indicator = rb.diff.indicator)
           <=> (SmallerThanSome(ra.ds) <=> SmallerThanSome(rb.ds))

\* C8 as amended: with a nonzero largest difference the glyph is the green
\* circle when the first duration is greater than some compared one and
\* the red circle otherwise; without a difference the cell is a dash.
C8_GlyphByGreaterThanSome ==
  \A c \in MultiComparisons : \A r \in DiffRows(c) :
    /\ MaxDiffOver(r.ds, Compared(r.ds)) = 0 <=> r.diff = Dash
    /\ r.diff # Dash =>
         r.diff.indicator = IF GreaterThanSomeCompared(r.ds) THEN "green" ELSE "red"

\* A report with a row whose first duration lies strictly between two
\* others, shown green, and a row whose first duration is below all
\* others, shown red.
C8_Witness ==
  \E c \in MultiComparisons : \E ra, rb \in DiffRows(c) :
    /\ Len(ra.ds) = 3
    /\ ra.ds[2] > 0 /\ ra.ds[2] < ra.ds[1] /\ ra.ds[1] < ra.ds[3]
    /\ ra.diff # Dash
    /\ ra.diff.indicator = "green"
    /\ rb.ds[1] > 0 /\ rb.ds[1] < rb.ds[2] /\ rb.ds[1] < rb.ds[3]
    /\ rb.diff # Dash
    /\ rb.diff.indicator = "red"

\* The identities of all the sets of a run under its attribute.
IdentitiesOf(sets, attr) ==
  UNION {{getTraceIdentifier(sets[i].Traces[j], attr) : j \in 1..Len(sets[i].Traces)} :
           i \in 1..Len(sets)}

\* C11: the summary matrix of CompareMultipleTraces has exactly one row per
\* identity in the union of the identities of all sets, in strictly
\* ascending lexicographic order, with one cell per set, and the cell of
\* set i is the present marker exactly when a trace of set i resolves to
\* the identity of the row.
C11_SummaryMatrixRows ==
  \A c \in MultiComparisons :
    LET sets == c.in[1]
        rows == c.out.Summary
        names == [j \in 1..Len(rows) |-> rows[j].Name]
    IN  /\ Elements(names) = IdentitiesOf(sets, c.in[2])
        /\ Len(rows) = Cardinality(IdentitiesOf(sets, c.in[2]))
        /\ StrictlyAscending(names)
        /\ \A j \in 1..Len(rows) :
             /\ Len(rows[j].Present) = Len(sets)
             /\ \A i \in 1..Len(sets) :
                  rows[j].Present[i] <=> Contains(sets[i], c.in[2], rows[j].Name)

\* A matrix of three rows "a", "ab", "b" over two sets, where a set holds
\* two traces of one identity and an identity is missing from the first set.
C11_Witness ==
  \E c \in MultiComparisons :
    /\ Len(c.in[1]) = 2
    /\ Len(c.out.Summary) = 3
    /\ c.out.Summary[2].Name = "ab"
    /\ \E j \in 1..3 : c.out.Summary[j].Present = <<FALSE, TRUE>>
    /\ \E i \in 1..2, j \in 1..3 :
         Cardinality(Resolving(c.in[1][i].Traces, c.in[2], c.out.Summary[j].Name)) = 2

\* C12: CompareMultipleTraces emits a detailed block for an identity exactly
\* when the identity is present in every set, one block each and in the
\* order of the summary; an identity missing from a set has its summary row
\* only.
C12_DetailsIffInEverySet ==
  \A c \in MultiComparisons :
    LET sets == c.in[1]
        blocks == [b \in 1..Len(c.out.Details) |-> c.out.Details[b].Name]
    IN  /\ \A name \in IdentitiesOf(sets, c.in[2]) :
             (name \in Elements(blocks))
               <=> (\A i \in 1..Len(sets) : Contains(sets[i], c.in[2], name))
        /\ Elements(blocks) \subseteq IdentitiesOf(sets, c.in[2])
        /\ StrictlyAscending(blocks)

\* A run with an identity of every set that has its block, and an identity
\* missing from a set that has its summary row and no block.
C12_Witness ==
  \E c \in MultiComparisons :
    /\ Len(c.in[1]) >= 2
    /\ \E b \in 1..Len(c.out.Details) :
         \A i \in 1..Len(c.in[1]) :
           Contains(c.in[1][i], c.in[2], c.out.Details[b].Name)
    /\ \E j \in 1..Len(c.out.Summary) :
         /\ \E i \in 1..Len(c.in[1]) : ~c.out.Summary[j].Present[i]
         /\ \A b \in 1..Len(c.out.Details) :
              c.out.Details[b].Name # c.out.Summary[j].Name

(***************************************************************************)
(* Claims about the overview table of GenerateMarkdown.                    *)
(***************************************************************************)
\* The duration of a trace: the latest end of its spans minus their
\* earliest start, 0 without spans.
EnvelopeOf(t) ==
  IF Len(t.Spans) = 0 THEN 0 ELSE MaxOf(EndTimes(t)) - MinOf(StartTimes(t))

\* The row of the k-th input trace in a table sorted by duration descending
\* where traces of equal duration keep their input order.
StablePosition(traces, k) ==
  1 + Cardinality({j \in 1..Len(traces) :
                     \/ EnvelopeOf(traces[j]) > EnvelopeOf(traces[k])
                     \/ EnvelopeOf(traces[j]) = EnvelopeOf(traces[k]) /\ j < k})

\* C13: the overview table has one row per input trace, ordered by trace
\* duration descending with traces of equal duration in their input order,
\* and each row shows the number of spans of its trace.
C13_OverviewStableByDuration ==
  \A c \in Reports :
    /\ Len(c.out.Overview) = Len(c.in)
    /\ \A k \in 1..Len(c.in) :
         LET row == c.out.Overview[StablePosition(c.in, k)]
         IN  /\ row.TraceID = truncateID(c.in[k].TraceID)
             /\ row.Duration = formatDuration(EnvelopeOf(c.in[k]))
             /\ row.Spans = Len(c.in[k].Spans)

(***************************************************************************)
(* The decoder: ParseTraces.                                               *)
(***************************************************************************)
\* A payload is the text of an input file: whether it is valid JSON, what
\* its top-level value is, and for an array its elements, each a trace
\* object with the flag typed, false when a field of the object (here
\* trace_id) holds a value of another type than the Trace schema has.
GoodTrace == mkTrace("t1", <<mkSpan("s1", "", "a", 0, 1)>>, EmptyMap, EmptyMap)

OtherTrace == mkTrace("t2", <<mkSpan("s1", "", "b", 0, 1)>>, EmptyMap, EmptyMap)

InvalidJSON == [valid |-> FALSE, top |-> "none", elems |-> <<>>]

NullJSON == [valid |-> TRUE, top |-> "null", elems |-> <<>>]

EmptyArray == [valid |-> TRUE, top |-> "array", elems |-> <<>>]

OneTrace ==
  [valid |-> TRUE, top |-> "array", elems |-> <<[trace |-> GoodTrace, typed |-> TRUE]>>]

Mismatch ==
  [valid |-> TRUE, top |-> "array",
   elems |-> <<[trace |-> GoodTrace, typed |-> TRUE],
               [trace |-> OtherTrace, typed |-> FALSE]>>]

Payloads == {InvalidJSON, NullJSON, EmptyArray, OneTrace, Mismatch}

\* json.Unmarshal(data, &traces): invalid JSON is rejected before anything
\* is stored; null stores nothing; an array is decoded element by element,
\* a field of the wrong type is skipped and left zero, and the first such
\* mismatch is returned as the error next to the traces decoded.
jsonUnmarshal(data) ==
  IF ~data.valid THEN [traces |-> <<>>, err |-> "syntax"]
  ELSE IF data.top = "null" THEN [traces |-> <<>>, err |-> ""]
  ELSE [traces |-> [j \in 1..Len(data.elems) |->
                      IF data.elems[j].typed THEN data.elems[j].trace
                      ELSE [data.elems[j].trace EXCEPT !.TraceID = ""]],
        err |-> IF \E j \in 1..Len(data.elems) : ~data.elems[j].typed
                THEN "type" ELSE ""]

\* The decoder returning what json.Unmarshal stored, next to the error.
ParseTracesPartial(data) ==
  [traces |-> jsonUnmarshal(data).traces,
   err |-> IF jsonUnmarshal(data).err # "" THEN "error unmarshaling traces" ELSE ""]

ParseTraces(data) ==
  IF jsonUnmarshal(data).err # ""
  THEN [traces |-> <<>>, err |-> "error unmarshaling traces"]
  ELSE [traces |-> jsonUnmarshal(data).traces, err |-> ""]

(***************************************************************************)
(* The info and compare commands.                                          *)
(***************************************************************************)
Unreadable == [readable |-> FALSE]

FileContents == {Unreadable} \cup {[readable |-> TRUE, data |-> d] : d \in Payloads}

\* The flags a command marks as required, and the ones a command line
\* supplies; the library rejects a command line that misses a required one
\* before the command runs.
requiredFlags(cmd) == IF cmd = "info" THEN {"input", "pr"} ELSE {"input"}

suppliedFlags(r) ==
  (IF Len(r.files) > 0 THEN {"input"} ELSE {})
    \cup (IF r.pr THEN {"pr"} ELSE {})
    \cup (IF r.owner # "" THEN {"owner"} ELSE {})
    \cup (IF r.repo # "" THEN {"repo"} ELSE {})
    \cup (IF r.dryRun THEN {"dry-run"} ELSE {})

ErrRequired == "required flag(s) not set"

ErrTwoFiles == "at least two input files are required for comparison"

ErrRead == "error reading file"

ErrParse == "error parsing traces"

ErrFlags == "--owner and --repo are required when not using --dry-run"

ErrToken == "GITHUB_TOKEN environment variable is required when not using --dry-run"

ErrComment == "error commenting on PR"

\* What the command does with the rendered comment, with every check
\* dropped but the one of --dry-run.
publishStepUnchecked(dryRun, owner, repo, token) ==
  IF dryRun THEN "print" ELSE "post"

\* What the command does with the rendered comment: print it with
\* --dry-run, fail without owner or repo, fail without a token, else post.
publishStep(dryRun, owner, repo, token) ==
  IF dryRun THEN "print"
  ELSE IF owner = "" \/ repo = "" THEN ErrFlags
  ELSE IF token = "" THEN ErrToken
  ELSE "post"

failed(r, e) == [r EXCEPT !.pc = "done", !.err = e]

CommandLines ==
  {[cmd |-> "info", files |-> f, pr |-> p, owner |-> o, repo |-> rp, dryRun |-> d,
    token |-> t, pc |-> "start", i |-> 1, comment |-> "", stdout |-> <<>>,
    posted |-> <<>>, err |-> ""] :
     f \in SeqsOf(FileContents, 0, 1), p \in BOOLEAN, o \in {"", "acme"},
     rp \in {"", "shop"}, d \in BOOLEAN, t \in {"", "secret"}}
  \cup
  {[cmd |-> "compare", files |-> f, pr |-> p, owner |-> o, repo |-> rp, dryRun |-> d,
    token |-> t, pc |-> "start", i |-> 1, comment |-> "", stdout |-> <<>>,
    posted |-> <<>>, err |-> ""] :
     f \in SeqsOf(FileContents, 0, MaxSets), p \in BOOLEAN, o \in {"", "acme"},
     rp \in {"", "shop"}, d \in BOOLEAN, t \in {"", "secret"}}

InitCli ==
  /\ run \in CommandLines
  /\ traceSets = <<>>
  /\ decoded = <<>>
  /\ attribute = IF run.cmd = "info" THEN "name" ELSE "trace_id"
  /\ calls = <<>>

\* The command line is validated and, for compare, the number of input
\* files is checked.
Execute ==
  /\ run.pc = "start"
  /\ run' = IF requiredFlags(run.cmd) \ suppliedFlags(run) # {}
            THEN failed(run, ErrRequired)
            ELSE IF run.cmd = "compare" /\ Len(run.files) < 2
            THEN failed(run, ErrTwoFiles)
            ELSE [run EXCEPT !.pc = "read"]
  /\ UNCHANGED <<traceSets, decoded, attribute, calls>>

\* The next input file is read and decoded, and its traces are kept as a
\* set named after the file.
ReadAndParse ==
  /\ run.pc = "read"
  /\ IF ~run.files[run.i].readable
     THEN /\ run' = failed(run, ErrRead)
          /\ UNCHANGED <<traceSets, decoded, calls>>
     ELSE LET data == run.files[run.i].data
              r == ParseTraces(data)
          IN  /\ calls' = Append(calls, [op |-> "ParseTraces", in |-> data, out |-> r])
              /\ IF r.err # ""
                 THEN /\ run' = failed(run, ErrParse)
                      /\ UNCHANGED <<traceSets, decoded>>
                 ELSE /\ traceSets' = Append(traceSets, mkSet(FileNames[run.i], r.traces))
                      /\ decoded' = traceSets'
                      /\ run' = [run EXCEPT !.i = run.i + 1,
                                            !.pc = IF run.i = Len(run.files)
                                                   THEN "render" ELSE "read"]
  /\ UNCHANGED attribute

\* The report is rendered: by GenerateMarkdown under a title for info, by
\* CompareMultipleTraces for compare.
Render ==
  /\ run.pc = "render"
  /\ IF run.cmd = "info"
     THEN /\ \E r \in GenerateMarkdown(traceSets[1].Traces) :
               /\ calls' = Append(calls, [op |-> "GenerateMarkdown",
                                          in |-> traceSets[1].Traces, out |-> r])
               /\ run' = IF r = StackOverflow THEN failed(run, "stack overflow")
                         ELSE [run EXCEPT !.pc = "publish",
                                          !.comment = [title |-> "OpenTelemetry Traces Analysis",
                                                       markdown |-> r]]
          /\ traceSets' = [traceSets EXCEPT ![1].Traces = sortedInPlace(traceSets[1].Traces)]
     ELSE /\ \E r \in CompareMultipleTraces(traceSets, attribute) :
               /\ calls' = Append(calls, [op |-> "CompareMultipleTraces",
                                          in |-> <<traceSets, attribute>>, out |-> r])
               /\ run' = [run EXCEPT !.pc = "publish", !.comment = r]
          /\ UNCHANGED traceSets
  /\ UNCHANGED <<decoded, attribute>>

\* The comment is printed or, after the checks of the flags and the token,
\* posted once; the post can fail.
Publish ==
  /\ run.pc = "publish"
  /\ LET d == publishStep(run.dryRun, run.owner, run.repo, run.token)
     IN  IF d = "print"
         THEN run' = [run EXCEPT !.pc = "done", !.stdout = Append(@, run.comment)]
         ELSE IF d = "post"
         THEN \E e \in {"", ErrComment} :
                run' = [run EXCEPT !.pc = "done", !.err = e,
                                   !.posted = Append(@, [owner |-> run.owner,
                                                         repo |-> run.repo,
                                                         body |-> run.comment])]
         ELSE run' = failed(run, d)
  /\ UNCHANGED <<traceSets, decoded, attribute, calls>>

NextCli == Execute \/ ReadAndParse \/ Render \/ Publish

SpecCli == InitCli /\ [][NextCli]_vars

(***************************************************************************)
(* Claims about the decoder and the commands.                              *)
(***************************************************************************)
\* A payload that is not valid JSON or has an element that does not fit
\* the Trace schema.
Malformed(data) == ~data.valid \/ \E j \in 1..Len(data.elems) : ~data.elems[j].typed

\* An input file that cannot be read or decoded.
Failing(file) == ~file.readable \/ Malformed(file.data)

InRun == run.pc # "none"

Rendered == CallsOf("GenerateMarkdown") \cup CallsOf("CompareMultipleTraces")

\* C14: ParseTraces on a malformed payload returns an error and no traces,
\* and on an empty list zero traces and no error; a run with an input file
\* that cannot be read or decoded renders, prints and posts nothing and
\* ends with an error, also when earlier files were decoded.
C14_NoPartialResults ==
  /\ \A c \in CallsOf("ParseTraces") :
       /\ Malformed(c.in) => c.out.err # "" /\ c.out.traces = <<>>
       /\ c.in = EmptyArray => c.out = [traces |-> <<>>, err |-> ""]
       /\ c.out.err = "" \/ c.out.traces = <<>>
  /\ (InRun /\ \E i \in 1..Len(run.files) : Failing(run.files[i])) =>
       /\ Rendered = {}
       /\ run.stdout = <<>>
       /\ run.posted = <<>>
       /\ run.pc = "done" => run.err # ""

\* A compare run whose first file was decoded and whose second file holds
\* a decodable trace next to one that does not fit the schema: it ended
\* with the error of the decoder and with no output.
C14_Witness ==
  /\ InRun
  /\ run.cmd = "compare"
  /\ run.pc = "done"
  /\ Len(run.files) >= 2
  /\ run.files[2] = [readable |-> TRUE, data |-> Mismatch]
  /\ Len(traceSets) = 1
  /\ \E c \in CallsOf("ParseTraces") : c.in = Mismatch /\ c.out.err # ""
  /\ \E c \in CallsOf("ParseTraces") : c.in = EmptyArray /\ c.out.err = ""
  /\ run.err = ErrParse
  /\ run.stdout = <<>>

\* The files a command needs are given, and each can be read and decoded.
InputsDecodable ==
  /\ Len(run.files) >= (IF run.cmd = "compare" THEN 2 ELSE 1)
  /\ \A i \in 1..Len(run.files) : ~Failing(run.files[i])

\* C15: with --dry-run, without --pr, --owner and --repo and without a
\* token, a run of info or compare over readable and decodable files ends
\* without an error and has printed the comment.
C15_DryRunNeedsNoGithubFlags ==
  (/\ InRun
   /\ run.pc = "done"
   /\ run.dryRun
   /\ ~run.pr /\ run.owner = "" /\ run.repo = "" /\ run.token = ""
   /\ InputsDecodable)
    => /\ run.err = ""
       /\ run.stdout = <<run.comment>>
       /\ run.comment # ""

\* The error a finished run has by the first check that fails, in the
\* order: number of files, reading and decoding of each file, --dry-run,
\* owner and repo, token.
FirstFailing == MinOf({i \in 1..Len(run.files) : Failing(run.files[i])})

ExpectedErrors ==
  IF run.cmd = "compare" /\ Len(run.files) < 2 THEN {ErrTwoFiles}
  ELSE IF \E i \in 1..Len(run.files) : Failing(run.files[i])
  THEN {IF run.files[FirstFailing].readable THEN ErrParse ELSE ErrRead}
  ELSE IF run.dryRun THEN {""}
  ELSE IF run.owner = "" \/ run.repo = "" THEN {ErrFlags}
  ELSE IF run.token = "" THEN {ErrToken}
  ELSE {"", ErrComment}

\* C16: a run posts at most one comment, and only when (for compare) two
\* files or more were given, every file was read and decoded, --dry-run is
\* not set, owner and repo are not empty and the token is not empty, the
\* checks being made in this order; with --dry-run the comment is printed
\* and never posted.
C16_PostedAtMostOnceAfterChecks ==
  InRun =>
    /\ Len(run.posted) <= 1
    /\ run.posted # <<>> =>
         /\ InputsDecodable
         /\ ~run.dryRun
         /\ run.owner # "" /\ run.repo # ""
         /\ run.token # ""
         /\ run.posted[1].body = run.comment
    /\ run.dryRun => run.posted = <<>>
    /\ run.stdout # <<>> => run.dryRun /\ run.stdout = <<run.comment>>
    /\ (run.pc = "done" /\ requiredFlags(run.cmd) \subseteq suppliedFlags(run)) =>
         /\ run.err \in ExpectedErrors
         /\ (InputsDecodable /\ run.dryRun) => run.stdout = <<run.comment>>
         /\ (InputsDecodable /\ ~run.dryRun /\ run.owner # "" /\ run.repo # ""
               /\ run.token # "") => Len(run.posted) = 1

\* A compare run over two decoded files that posted its report, and whose
\* post succeeded.
C16_Witness ==
  /\ InRun
  /\ run.cmd = "compare"
  /\ run.pc = "done"
  /\ Len(run.posted) = 1
  /\ run.posted[1].body = run.comment
  /\ run.comment \in CompareMultipleTraces(traceSets, attribute)
  /\ Len(traceSets) >= 2
  /\ run.err = ""

(***************************************************************************)
(* Claims about the span comparison of CompareTraces.                      *)
(***************************************************************************)
SpanNamesOf(t) == {t.Spans[i].Name : i \in 1..Len(t.Spans)}

\* The last span of the trace with the name, in sequence order.
LastSpanNamed(t, name) ==
  t.Spans[MaxOf({i \in 1..Len(t.Spans) : t.Spans[i].Name = name})]

\* The trace a collection holds for an identity by name: the last one.
MatchedTrace(traces, name) == traces[MaxOf(Resolving(traces, "name", name))]

\* C17: for every identity matched by CompareTraces the span-comparison
\* table has exactly one row for each span name that occurs in both
\* matched traces and none for a name of one trace only, and a row shows
\* the durations of the last span with its name in each trace.
C17_SpanRowsForSharedNames ==
  \A c \in Comparisons : \A b \in 1..Len(c.out.Blocks) :
    LET block == c.out.Blocks[b]
        t1 == MatchedTrace(c.in[1], block.Name)
        t2 == MatchedTrace(c.in[2], block.Name)
        shared == SpanNamesOf(t1) \cap SpanNamesOf(t2)
    IN  /\ {block.Spans[j].Name : j \in 1..Len(block.Spans)} = shared
        /\ Len(block.Spans) = Cardinality(shared)
        /\ \A j \in 1..Len(block.Spans) :
             LET s1 == LastSpanNamed(t1, block.Spans[j].Name)
                 s2 == LastSpanNamed(t2, block.Spans[j].Name)
             IN  /\ block.Spans[j].First = formatDuration(s1.EndTime - s1.StartTime)
                 /\ block.Spans[j].Second = formatDuration(s2.EndTime - s2.StartTime)

\* Two matched traces where the first has two spans "a" of different
\* durations and the second has a span "b" the first has not: the table
\* has the one row "a", with the duration of the later span.
C17_Witness ==
  \E c \in Comparisons :
    /\ Len(c.in[1]) = 1 /\ Len(c.in[2]) = 1
    /\ Len(c.in[1][1].Spans) = 2
    /\ c.in[1][1].Spans[1].Name = "a" /\ c.in[1][1].Spans[2].Name = "a"
    /\ c.in[1][1].Spans[1].EndTime # c.in[1][1].Spans[2].EndTime
    /\ "b" \in SpanNamesOf(c.in[2][1])
    /\ Len(c.out.Blocks) = 1
    /\ Len(c.out.Blocks[1].Spans) = 1
    /\ c.out.Blocks[1].Spans[1].Name = "a"
    /\ c.out.Blocks[1].Spans[1].First
         = formatDuration(c.in[1][1].Spans[2].EndTime - c.in[1][1].Spans[2].StartTime)

(***************************************************************************)
(* Claims about the hierarchy walk of GenerateMarkdown.                    *)
(***************************************************************************)
\* The spans (by position) whose parent id is the id of a span in S.
ChildrenOf(t, S) ==
  {i \in 1..Len(t.Spans) : \E j \in S : t.Spans[i].ParentSpanID = t.Spans[j].SpanID}

\* S with everything below it through ParentSpanID links.
RECURSIVE DownFrom(_, _)
DownFrom(t, S) ==
  IF ChildrenOf(t, S) \subseteq S THEN S ELSE DownFrom(t, S \cup ChildrenOf(t, S))

\* The spans that are their own descendant.
OnParentCycle(t) == {i \in 1..Len(t.Spans) : i \in DownFrom(t, ChildrenOf(t, {i}))}

\* The spans the walk from the empty parent id comes to.
ReachedFromRoot(t) == DownFrom(t, {i \in 1..Len(t.Spans) : t.Spans[i].ParentSpanID = ""})

UniqueNonEmptyIds(t) ==
  /\ \A i \in 1..Len(t.Spans) : t.Spans[i].SpanID # ""
  /\ \A i, j \in 1..Len(t.Spans) : t.Spans[i].SpanID = t.Spans[j].SpanID => i = j

Walks == CallsOf("GenerateMarkdown")

\* C18 as stated: the walk of showSpan from the empty parent id does not
\* terminate whenever the trace has a span that is its own descendant.
C18_AnyCycleDiverges ==
  \A c \in Walks :
    (\E k \in 1..Len(c.in) : OnParentCycle(c.in[k]) # {}) => c.out = StackOverflow

\* C18 as amended: the walk does not terminate exactly when a span that is
\* its own descendant is reached from the empty parent id; with unique and
\* non-empty span ids no such span is reached, so the walk terminates also
\* on a trace with a parent cycle, whose spans it does not list.
C18_ReachedCycleDiverges ==
  \A c \in Walks :
    /\ c.out = StackOverflow
         <=> \E k \in 1..Len(c.in) :
               OnParentCycle(c.in[k]) \cap ReachedFromRoot(c.in[k]) # {}
    /\ (\A k \in 1..Len(c.in) : UniqueNonEmptyIds(c.in[k])) => c.out # StackOverflow

\* A trace of two spans "s1" and "s2" that name each other as parent: the
\* walk returned, and the hierarchy of the trace is empty.
C18_Witness ==
  \E c \in Walks :
    /\ Len(c.in) = 1
    /\ Len(c.in[1].Spans) = 2
    /\ UniqueNonEmptyIds(c.in[1])
    /\ OnParentCycle(c.in[1]) = {1, 2}
    /\ c.out # StackOverflow
    /\ c.out.TraceDetails[1].Spans = <<>>

\* A trace whose walk does not return: a cycle reached from the empty
\* parent id.
C18_WitnessDiverging ==
  \E c \in Walks : c.out = StackOverflow

(***************************************************************************)
(* Claims about the comparators as functions of their inputs.              *)
(***************************************************************************)
ComparatorCalls == CallsOf("CompareTraces") \cup CallsOf("CompareMultipleTraces")

\* C19: CompareTraces and CompareMultipleTraces leave the caller's
\* collections as they were decoded, and any two calls of one of them on
\* the same inputs return the same report: the same partition, summary
\* and detailed blocks.
C19_ComparatorsSideEffectFree ==
  /\ ComparatorCalls # {} => traceSets = decoded
  /\ \A c, d \in ComparatorCalls :
       (c.op = d.op /\ c.in = d.in) => c.out = d.out

\* C20: in one report of GenerateMarkdown the overview row of a trace and
\* the summary line of its details block, which come in the same order,
\* show the trace under the same display name.
C20_SameNameInOverviewAndDetails ==
  \A c \in Reports :
    /\ Len(c.out.TraceDetails) = Len(c.out.Overview)
    /\ \A p \in 1..Len(c.out.Overview) :
         /\ c.out.TraceDetails[p].TraceID = c.out.Overview[p].TraceID
         /\ c.out.TraceDetails[p].Name = c.out.Overview[p].Name

\* C21: on traces whose span ids are unique and not empty the walk from the
\* empty parent id returns, lists each span at most once and lists exactly
\* the spans whose chain of parent links reaches the empty parent id; a
\* span whose parent id matches no span, or that lies on a parent cycle,
\* is not listed, and every span has its row in the span-detail table.
C21_WalkListsSpansUnderRoot ==
  \A c \in Walks :
    (\A k \in 1..Len(c.in) : UniqueNonEmptyIds(c.in[k])) =>
      /\ c.out # StackOverflow
      /\ Len(c.out.TraceDetails) = Len(c.in)
      /\ \A p \in 1..Len(c.in) :
           LET t == sortTraces(c.in)[p]
               listed == c.out.TraceDetails[p].Spans
           IN  /\ {listed[j].Name : j \in 1..Len(listed)}
                    = {t.Spans[i].Name : i \in ReachedFromRoot(t)}
               /\ Len(listed) = Cardinality(ReachedFromRoot(t))
               /\ OnParentCycle(t) \cap ReachedFromRoot(t) = {}
               /\ \A i \in 1..Len(t.Spans) :
                    \E r \in 1..Len(c.out.SpanDetails) :
                      /\ c.out.SpanDetails[r].SpanID = truncateID(t.Spans[i].SpanID)
                      /\ c.out.SpanDetails[r].Name = t.Spans[i].Name

\* A trace of a root span and a span whose parent id matches no span: the
\* hierarchy lists the root alone, the span-detail table has both.
C21_Witness ==
  \E c \in Walks :
    /\ Len(c.in) = 1
    /\ UniqueNonEmptyIds(c.in[1])
    /\ Len(c.in[1].Spans) = 2
    /\ ReachedFromRoot(c.in[1]) = {1}
    /\ ChildrenOf(c.in[1], {1, 2}) = {}
    /\ c.out # StackOverflow
    /\ Len(c.out.TraceDetails[1].Spans) = 1
    /\ c.out.TraceDetails[1].Spans[1].Name = c.in[1].Spans[1].Name
    /\ Len(c.out.SpanDetails) = 2

\* A trace of two spans on a parent cycle: the hierarchy lists neither, the
\* span-detail table has both.
C21_WitnessCycle ==
  \E c \in Walks :
    /\ Len(c.in) = 1
    /\ UniqueNonEmptyIds(c.in[1])
    /\ OnParentCycle(c.in[1]) = {1, 2}
    /\ c.out # StackOverflow
    /\ c.out.TraceDetails[1].Spans = <<>>
    /\ Len(c.out.SpanDetails) = 2
    /\ Len(c.out.Overview) = 1

=============================================================================
